---- MODULE Spec2Model ----
(***************************************************************************)
(* A model of backend/robot_client.py (class RobotTCPClient): the          *)
(* dashboard channel with its in-flight lock, the program controller       *)
(* (load/play/pause/stop with stale-reply retries), the status poller,     *)
(* and the connection manager (connect/disconnect with the feedback        *)
(* listener, the status poller task and the RTDE worker thread).           *)
(*                                                                         *)
(* Coroutines of the asyncio event loop are modelled with one step per     *)
(* stretch of code between two suspension points (await on a socket, on    *)
(* the lock, on a sleep, on another task); the RTDE worker is a thread and *)
(* is interleaved at the level of its attribute reads and writes.          *)
(* Time is counted in whole seconds.                                       *)
(***************************************************************************)
EXTENDS Integers, Sequences, FiniteSets, TLC

\* ---------------------------------------------------------------- bounds
MaxTime == 3        \* the clock stops advancing here
MaxCalls == 3       \* connect() / disconnect() calls made by the control path
MaxLen == 4         \* pieces in a script text given to send_command
MaxClients == 3     \* websocket clients of the state broadcast

\* ------------------------------------------------------ program constants
LockSeconds == 1        \* time.time() + 1.0
MaxAttempts == 3        \* for attempt in range(3)
PollSeconds == 2        \* asyncio.sleep(2.0)
SpeedOne == 10          \* the speed fraction 1.0, in tenths

None == "None"
NoOne == "nobody"

STOPPED == 0
PLAYING == 1
PAUSED == 2

\* ------------------------------------------------------- dashboard replies
\* The texts the dashboard server may answer with.  Any of them may arrive as
\* the reply to any request: the protocol has no correlation id, and a reply
\* left over from an earlier command is read by the next reader.
Replies ==
  { "Loading program: prog.urp",
    "Starting program",
    "Pausing program",
    "Stopped",
    "PLAYING",
    "PAUSED",
    "Failed to execute: play",
    "Failed to execute: stop",
    "Error while loading program: prog.urp",
    "File not found: prog.urp",
    "Remote control mode is disabled",
    "Connected: Universal Robots Dashboard Server",
    "Loaded program: /programs/prog.urp",
    "Robotmode: RUNNING",
    "Safetystatus: NORMAL" }

\* The substrings the code looks for (in the lower-cased reply, except the
\* three marked cs, which are looked for in the reply as received), and for each
\* reply text the ones it contains.
Marks(r) ==
  CASE r = "Loading program: prog.urp" -> {"loading", "load"}
    [] r = "Starting program" -> {"starting"}
    [] r = "Pausing program" -> {"pausing"}
    [] r = "Stopped" -> {"stopped", "stop"}
    [] r = "PLAYING" -> {"playing", "play"}
    [] r = "PAUSED" -> {"paused", "pause"}
    [] r = "Failed to execute: play" -> {"failed to execute", "failed", "play"}
    [] r = "Failed to execute: stop" -> {"failed to execute", "failed", "stop"}
    [] r = "Error while loading program: prog.urp" -> {"error", "loading", "load"}
    [] r = "File not found: prog.urp" -> {"file not found"}
    [] r = "Remote control mode is disabled" -> {"remote control mode is disabled"}
    [] r = "Connected: Universal Robots Dashboard Server" ->
           {"connected:", "dashboard server"}
    [] r = "Loaded program: /programs/prog.urp" ->
           {"loaded", "load", "cs:Loaded program:"}
    [] r = "Robotmode: RUNNING" -> {"robotmode:", "running"}
    [] r = "Safetystatus: NORMAL" -> {"safetystatus:", "cs:NORMAL"}
    [] r = "Protective stop releasing" -> {"protective stop releasing", "stop"}
    [] r = "Cannot unlock protective stop until 5s after occurrence. Always inspect cause of protective stop before unlocking" ->
           {"unlocking", "stop"}
    [] r = "Error: program already playing" -> {"error", "playing", "play"}
    [] r = "Error: program paused" -> {"error", "paused", "pause"}
    [] r = "Error: program stopped" -> {"error", "stopped", "stop"}
    [] r = "Failed to execute: starting program" ->
           {"failed to execute", "failed", "starting"}
    [] r = "Failed to execute: pausing" -> {"failed to execute", "failed", "pausing"}
    [] r = "Starting program: remote control mode is disabled" ->
           {"remote control mode is disabled", "starting"}
    [] OTHER -> {}

\* `m in low_res`
Has(r, m) == m \in Marks(r)

\* any(x in low_res for x in ms)
HasAny(r, ms) == \E m \in ms : Has(r, m)

\* result.replace("Loaded program:", "").strip()
StripLoaded(r) ==
  IF r = "Loaded program: /programs/prog.urp" THEN "/programs/prog.urp" ELSE r

ProgramNames == {"prog.urp"}

OpNames == {"load", "play", "pause", "stop"}

\* ------------------------------------------------------------- classifiers
\* The outcome of one loop iteration of a program operation on reply r:
\*   "fail"       return (False, result)
\*   "retry"      await asyncio.sleep(..); continue
\*   "next"       the loop body ends without a sleep; the loop goes on
\*   "exhausted"  the last iteration fell out of the loop: return (False, last_result)
\*   "accept"     record the new state and return (True, result)
\*   "quirk"      return (True, result) with no state recorded (play, "loading")

IsBanner(r) == Has(r, "connected:") \/ Has(r, "dashboard server")

\* mutant: one attempt too many
RetryOrFail_OffByOne(attempt) == IF attempt < MaxAttempts THEN "retry" ELSE "fail"

RetryOrFail(attempt) == IF attempt < MaxAttempts - 1 THEN "retry" ELSE "fail"

RetryOrExhausted(attempt) == IF attempt < MaxAttempts - 1 THEN "retry" ELSE "exhausted"

\* mutant: a stale state reply is taken for the answer to the load
LoadClassify_AcceptStale(attempt, r) ==
  IF Has(r, "remote control mode is disabled") THEN "fail"
  ELSE IF Has(r, "failed to execute")
       THEN (IF Has(r, "load") THEN "fail" ELSE RetryOrFail(attempt))
  ELSE IF Has(r, "file not found") \/ Has(r, "error") \/ Has(r, "failed") THEN "fail"
  ELSE IF IsBanner(r) THEN RetryOrFail(attempt)
  ELSE IF HasAny(r, {"pausing", "paused", "stopped", "stopping", "starting", "playing"})
          /\ ~Has(r, "loading")
       THEN "accept"
  ELSE IF Has(r, "loading") \/ Has(r, "loaded") THEN "accept"
  ELSE IF attempt < MaxAttempts - 1 THEN "next" ELSE "exhausted"

LoadClassify(attempt, r) ==
  IF Has(r, "remote control mode is disabled") THEN "fail"
  ELSE IF Has(r, "failed to execute")
       THEN (IF Has(r, "load") THEN "fail" ELSE RetryOrFail(attempt))
  ELSE IF Has(r, "file not found") \/ Has(r, "error") \/ Has(r, "failed") THEN "fail"
  ELSE IF IsBanner(r) THEN RetryOrFail(attempt)
  ELSE IF HasAny(r, {"pausing", "paused", "stopped", "stopping", "starting", "playing"})
          /\ ~Has(r, "loading")
       THEN RetryOrFail(attempt)
  ELSE IF Has(r, "loading") \/ Has(r, "loaded") THEN "accept"
  ELSE IF attempt < MaxAttempts - 1 THEN "next" ELSE "exhausted"

\* mutant: a "loading" reply is accepted on the first attempt too
PlayClassify_AcceptFirstLoading(attempt, r) ==
  IF Has(r, "remote control mode is disabled") THEN "fail"
  ELSE IF Has(r, "failed to execute")
       THEN (IF Has(r, "play") THEN "fail" ELSE RetryOrFail(attempt))
  ELSE IF Has(r, "error") \/ Has(r, "failed") THEN "fail"
  ELSE IF IsBanner(r) THEN RetryOrFail(attempt)
  ELSE IF HasAny(r, {"stopped", "stopping", "paused", "pausing"})
       THEN RetryOrFail(attempt)
  ELSE IF Has(r, "loading") THEN "quirk"
  ELSE IF HasAny(r, {"starting", "playing", "started"}) THEN "accept"
  ELSE RetryOrExhausted(attempt)

PlayClassify(attempt, r) ==
  IF Has(r, "remote control mode is disabled") THEN "fail"
  ELSE IF Has(r, "failed to execute")
       THEN (IF Has(r, "play") THEN "fail" ELSE RetryOrFail(attempt))
  ELSE IF Has(r, "error") \/ Has(r, "failed") THEN "fail"
  ELSE IF IsBanner(r) THEN RetryOrFail(attempt)
  ELSE IF HasAny(r, {"stopped", "stopping", "paused", "pausing"})
       THEN RetryOrFail(attempt)
  ELSE IF Has(r, "loading") THEN (IF attempt = 0 THEN "retry" ELSE "quirk")
  ELSE IF HasAny(r, {"starting", "playing", "started"}) THEN "accept"
  ELSE RetryOrExhausted(attempt)

\* mutant: the success words are looked for before the error markers
PauseClassify_SuccessFirst(attempt, r) ==
  IF HasAny(r, {"pausing", "paused"}) THEN "accept"
  ELSE IF Has(r, "remote control mode is disabled") THEN "fail"
  ELSE IF Has(r, "failed to execute")
       THEN (IF Has(r, "pause") THEN "fail" ELSE RetryOrFail(attempt))
  ELSE IF Has(r, "error") \/ Has(r, "failed") THEN "fail"
  ELSE IF IsBanner(r) THEN RetryOrFail(attempt)
  ELSE RetryOrExhausted(attempt)

PauseClassify(attempt, r) ==
  IF Has(r, "remote control mode is disabled") THEN "fail"
  ELSE IF Has(r, "failed to execute")
       THEN (IF Has(r, "pause") THEN "fail" ELSE RetryOrFail(attempt))
  ELSE IF Has(r, "error") \/ Has(r, "failed") THEN "fail"
  ELSE IF IsBanner(r) THEN RetryOrFail(attempt)
  ELSE IF HasAny(r, {"pausing", "paused"}) THEN "accept"
  ELSE RetryOrExhausted(attempt)

\* mutant: the test for "error" / "failed" is missing
StopClassify_NoErrorTest(attempt, r) ==
  IF Has(r, "remote control mode is disabled") THEN "fail"
  ELSE IF Has(r, "failed to execute")
       THEN (IF Has(r, "stop") THEN "fail" ELSE RetryOrFail(attempt))
  ELSE IF IsBanner(r) THEN RetryOrFail(attempt)
  ELSE IF HasAny(r, {"stopped", "stopping"}) THEN "accept"
  ELSE RetryOrExhausted(attempt)

StopClassify(attempt, r) ==
  IF Has(r, "remote control mode is disabled") THEN "fail"
  ELSE IF Has(r, "failed to execute")
       THEN (IF Has(r, "stop") THEN "fail" ELSE RetryOrFail(attempt))
  ELSE IF Has(r, "error") \/ Has(r, "failed") THEN "fail"
  ELSE IF IsBanner(r) THEN RetryOrFail(attempt)
  ELSE IF HasAny(r, {"stopped", "stopping"}) THEN "accept"
  ELSE RetryOrExhausted(attempt)

\* mutant: any reply that speaks of a stop is taken for the release
UnlockClassify_AnyStop(attempt, r) ==
  IF Has(r, "stop") THEN "quirk" ELSE "fail"

\* unlock_protective_stop has no loop: (True, result) with nothing recorded,
\* or (False, result)
UnlockClassify(attempt, r) ==
  IF Has(r, "protective stop releasing") \/ Has(r, "unlocking") THEN "quirk"
  ELSE "fail"

Classify(name, attempt, r) ==
  CASE name = "load" -> LoadClassify(attempt, r)
    [] name = "unlock" -> UnlockClassify(attempt, r)
    [] name = "play" -> PlayClassify(attempt, r)
    [] name = "pause" -> PauseClassify(attempt, r)
    [] name = "stop" -> StopClassify(attempt, r)

\* the program_state an accepted play / pause / stop records
TargetState(name) ==
  CASE name = "play" -> PLAYING
    [] name = "pause" -> PAUSED
    [] name = "stop" -> STOPPED

\* ------------------------------------------------------------------ state
VARIABLES
  now,                        \* time.time(), in seconds
  connected,                  \* self.connected
  feedback_connected,         \* self.feedback_connected
  dashboard_connected,        \* self.dashboard_connected
  rtde_connected,             \* self.rtde_connected
  writer,                     \* self.reader / self.writer: None or "open"
  feedback_writer,            \* self.feedback_reader / self.feedback_writer
  dashboard_writer,           \* self.dashboard_reader / self.dashboard_writer
  rtde_con,                   \* self.rtde_con: None, "open" or "closed"
  rtde_stop_event,            \* self.rtde_stop_event.is_set()
  feedback_task,              \* self.feedback_task: None or "task"
  status_poller_task,         \* self.status_poller_task: None or "task"
  rtde_thread,                \* self.rtde_thread: None or a worker id
  latest_state,               \* self.latest_state: <<>> for None, or <<joints, tcp_pose>>
  robot_mode,                 \* self.robot_mode
  safety_mode,                \* self.safety_mode
  program_state,              \* self.program_state
  program_state_lock_until,   \* self.program_state_lock_until
  loaded_program,             \* self.loaded_program
  lock_holder,                \* self.dashboard_lock: the caller holding it
  lock_waiters,               \* self.dashboard_lock: the queued callers, in order
  op,                         \* the caller of load/play/pause/stop_program
  op_ret,                     \* what its last call returned: (success, message)
  op_seen,                    \* history: the replies its current call has read
  direct,                     \* a caller of send_dashboard_command itself
  poller,                     \* the _status_poller task
  fb,                         \* the _feedback_listener task
  workers,                    \* the _rtde_worker threads, by id
  ctl,                        \* the control path calling connect() / disconnect()
  rtde_watch_input,           \* self.rtde_watch_input: the input recipe's fields, <<>> for None
  rtde_outputs,               \* the output recipe configured on self.rtde_con
  hs,                         \* _rtde_handshake / _setup_rtde_recipe in progress
  rtde_speed_slider,          \* self.rtde_speed_slider, in tenths
  latest_speed,               \* self.latest_state["speed_slider"], in tenths
  sp,                         \* a caller of set_robot_speed
  sc,                         \* a caller of send_command
  wire,                       \* history: what the current call has transmitted
  active_connections,         \* manager.active_connections: the websockets, in order
  broadcast_task,             \* manager.broadcast_task: 0 for None, or the task's id
  tasks,                      \* the broadcast_robot_state tasks, by id
  websocket                          \* the websocket_robot_state handlers, by client

flagVars == <<connected, feedback_connected, dashboard_connected, rtde_connected>>
sockVars == <<writer, feedback_writer, dashboard_writer, rtde_con>>
taskVars == <<rtde_stop_event, feedback_task, status_poller_task, rtde_thread>>
modeVars == <<robot_mode, safety_mode>>
progVars == <<program_state, program_state_lock_until, loaded_program>>
lockVars == <<lock_holder, lock_waiters>>
opVars == <<op, op_ret, op_seen>>
connProcs == <<fb, workers, ctl>>
rtdeVars == <<rtde_watch_input, rtde_outputs, hs>>
speedVars == <<rtde_speed_slider, latest_speed>>
callVars == <<sp, sc, wire>>

wsVars == <<active_connections, broadcast_task, tasks, websocket>>

\* the state of the robot client
robotVars == <<now, flagVars, sockVars, taskVars, latest_state, modeVars, progVars,
               lockVars, opVars, direct, poller, connProcs, rtdeVars, speedVars, callVars>>

vars == <<robotVars, wsVars>>

\* ------------------------------------------------- processes at rest
IdleOp == [pc |-> "idle", name |-> "none", arg |-> None, attempt |-> 0,
           last_result |-> "", sent |-> 0]

NoTask == [pc |-> "none", cmd |-> "robotmode", wake |-> 0, cancel |-> FALSE]

NoListener == [pc |-> "none", count |-> 0, cancel |-> FALSE]

\* the control path: where it stands in connect() or disconnect(), the call it
\* is in, the calls made, the last call that returned and the one before it,
\* and what the last connect() returned
\* history of the last handshake: the kinds of request it made, in order,
\* whether the last of them raised, and what send_start gave
IdleCtl == [pc |-> "idle", op |-> "none", calls |-> 0, last |-> "none",
            before |-> "none", result |-> FALSE,
            reqs |-> <<>>, raised |-> FALSE, sync |-> "none"]

WorkerIds == 1 .. MaxCalls

\* no handshake in progress: the recipe being set up, the field being probed,
\* supported_names, and the fields the controller at the other end supports
IdleHs == [recipe |-> "none", i |-> 0, supported_names |-> <<>>,
           out |-> {}, inp |-> {}, accepted |-> {}]

IdleSp == [pc |-> "idle", fraction |-> 0, safe_fraction |-> 0, ret |-> "none"]

IdleCmd == [pc |-> "idle", urscript |-> <<>>, ret |-> "none"]

\* the websocket clients; a broadcast task is created for a client at most
Clients == 1 .. MaxClients

\* no broadcast task: where it stands, and for the round in progress or just
\* ended the index and the websocket of the current push, the websockets
\* attached since the round began, and those a push was made to
NoBroadcast == [pc |-> "none", i |-> 0, target |-> 0, kept |-> {}, pushed |-> {}]

\* ------------------------------------------------------- the dashboard lock
\* asyncio.Lock: acquire() takes a free lock without suspending; otherwise the
\* caller queues, and release() hands the lock to the first queued caller.

\* mutant: the request is written without waiting for the lock
Enter_IgnoreLock(c, h, w) == [holder |-> c, waiters |-> w, pc |-> "read"]

\* `async with self.dashboard_lock` entered by c when the lock is (h, w)
Enter(c, h, w) ==
  IF h = NoOne /\ w = <<>>
  THEN [holder |-> c, waiters |-> w, pc |-> "read"]
  ELSE [holder |-> h, waiters |-> Append(w, c), pc |-> "wait"]

\* leaving the `async with` block
Release(w) ==
  IF w = <<>>
  THEN [holder |-> NoOne, waiters |-> <<>>]
  ELSE [holder |-> Head(w), waiters |-> Tail(w)]

\* send_dashboard_command's first test
DashUsable(dconn) == dconn /\ dashboard_writer # None

\* ------------------------------------------------- the program controller
Pending == [ok |-> FALSE, msg |-> "(pending)"]

Returned(ok, msg) == [ok |-> ok, msg |-> msg]

\* one loop iteration starts: send_dashboard_command is called for `attempt`,
\* with the lock in state (h, w) and the channel flag dconn
OpSend(o, attempt, h, w, dconn) ==
  IF ~DashUsable(dconn)
  THEN /\ op' = [o EXCEPT !.pc = "idle", !.attempt = attempt]
       /\ op_ret' = Returned(FALSE, "No response from Dashboard")
       /\ lock_holder' = h
       /\ lock_waiters' = w
  ELSE LET e == Enter("op", h, w)
       IN /\ op' = [o EXCEPT !.pc = e.pc, !.attempt = attempt,
                             !.sent = IF e.pc = "read" THEN @ + 1 ELSE @]
          /\ op_ret' = Pending
          /\ lock_holder' = e.holder
          /\ lock_waiters' = e.waiters

\* load_program / play_program / pause_program / stop_program is called
OpCall(name, arg) ==
  /\ op.pc = "idle"
  /\ op_seen' = <<>>
  /\ LET o == [pc |-> "idle", name |-> name, arg |-> arg, attempt |-> 0,
               last_result |-> "", sent |-> 0]
     IN IF ~dashboard_connected
        THEN /\ op' = o
             /\ op_ret' = Returned(FALSE, "Not connected to Dashboard")
             /\ UNCHANGED lockVars
        ELSE OpSend(o, 0, lock_holder, lock_waiters, dashboard_connected)
  /\ UNCHANGED <<wsVars, now, rtdeVars, speedVars, callVars, flagVars, sockVars, taskVars, latest_state, modeVars, progVars,
                 direct, poller, connProcs>>

\* the queued call is handed the lock and writes its request
OpAcquired ==
  /\ op.pc = "wait"
  /\ lock_holder = "op"
  /\ op' = [op EXCEPT !.pc = "read", !.sent = @ + 1]
  /\ UNCHANGED <<wsVars, now, rtdeVars, speedVars, callVars, flagVars, sockVars, taskVars, latest_state, modeVars, progVars,
                 lockVars, op_ret, op_seen, direct, poller, connProcs>>

\* mutant: an error reply is recorded like an accepted one
OpReply_RecordsOnFail(RS, track) ==
  /\ op.pc = "read"
  /\ \E res \in RS \cup {None} :
       LET rel == Release(lock_waiters)
           out == IF res = None THEN "none" ELSE Classify(op.name, op.attempt, res)
           o == IF res = None THEN op ELSE [op EXCEPT !.last_result = res]
           accepted == out \in {"accept", "fail"}
       IN /\ op_seen' = IF track /\ res # None THEN Append(op_seen, res) ELSE op_seen
          /\ dashboard_connected' = IF res = None THEN FALSE ELSE dashboard_connected
          /\ program_state' = IF accepted /\ op.name # "load"
                              THEN TargetState(op.name) ELSE program_state
          /\ program_state_lock_until' = IF accepted /\ op.name # "load"
                                         THEN now + LockSeconds
                                         ELSE program_state_lock_until
          /\ loaded_program' = IF accepted /\ op.name = "load"
                               THEN op.arg ELSE loaded_program
          /\ CASE out = "none" ->
                    /\ op' = [o EXCEPT !.pc = "idle"]
                    /\ op_ret' = Returned(FALSE, "No response from Dashboard")
                    /\ lock_holder' = rel.holder
                    /\ lock_waiters' = rel.waiters
               [] out \in {"fail", "exhausted"} ->
                    /\ op' = [o EXCEPT !.pc = "idle"]
                    /\ op_ret' = Returned(FALSE, res)
                    /\ lock_holder' = rel.holder
                    /\ lock_waiters' = rel.waiters
               [] out \in {"accept", "quirk"} ->
                    /\ op' = [o EXCEPT !.pc = "idle"]
                    /\ op_ret' = Returned(TRUE, res)
                    /\ lock_holder' = rel.holder
                    /\ lock_waiters' = rel.waiters
               [] out = "retry" ->
                    /\ op' = [o EXCEPT !.pc = "sleep"]
                    /\ op_ret' = Pending
                    /\ lock_holder' = rel.holder
                    /\ lock_waiters' = rel.waiters
               [] out = "next" ->
                    OpSend(o, op.attempt + 1, rel.holder, rel.waiters, dashboard_connected)
  /\ UNCHANGED <<wsVars, now, rtdeVars, speedVars, callVars, connected, feedback_connected, rtde_connected, sockVars, taskVars,
                 latest_state, modeVars, direct, poller, connProcs>>

\* the reply (or a read error / timeout: None) arrives and is classified; the
\* device answers with one of the texts RS, and `track` keeps the history op_seen
OpReply(RS, track) ==
  /\ op.pc = "read"
  /\ \E res \in RS \cup {None} :
       LET rel == Release(lock_waiters)
           out == IF res = None THEN "none" ELSE Classify(op.name, op.attempt, res)
           o == IF res = None THEN op ELSE [op EXCEPT !.last_result = res]
           accepted == out = "accept"
       IN /\ op_seen' = IF track /\ res # None THEN Append(op_seen, res) ELSE op_seen
          /\ dashboard_connected' = IF res = None THEN FALSE ELSE dashboard_connected
          /\ program_state' = IF accepted /\ op.name # "load"
                              THEN TargetState(op.name) ELSE program_state
          /\ program_state_lock_until' = IF accepted /\ op.name # "load"
                                         THEN now + LockSeconds
                                         ELSE program_state_lock_until
          /\ loaded_program' = IF accepted /\ op.name = "load"
                               THEN op.arg ELSE loaded_program
          /\ CASE out = "none" ->
                    /\ op' = [o EXCEPT !.pc = "idle"]
                    /\ op_ret' = Returned(FALSE, "No response from Dashboard")
                    /\ lock_holder' = rel.holder
                    /\ lock_waiters' = rel.waiters
               [] out \in {"fail", "exhausted"} ->
                    /\ op' = [o EXCEPT !.pc = "idle"]
                    /\ op_ret' = Returned(FALSE, res)
                    /\ lock_holder' = rel.holder
                    /\ lock_waiters' = rel.waiters
               [] out \in {"accept", "quirk"} ->
                    /\ op' = [o EXCEPT !.pc = "idle"]
                    /\ op_ret' = Returned(TRUE, res)
                    /\ lock_holder' = rel.holder
                    /\ lock_waiters' = rel.waiters
               [] out = "retry" ->
                    /\ op' = [o EXCEPT !.pc = "sleep"]
                    /\ op_ret' = Pending
                    /\ lock_holder' = rel.holder
                    /\ lock_waiters' = rel.waiters
               [] out = "next" ->
                    OpSend(o, op.attempt + 1, rel.holder, rel.waiters, dashboard_connected)
  /\ UNCHANGED <<wsVars, now, rtdeVars, speedVars, callVars, connected, feedback_connected, rtde_connected, sockVars, taskVars,
                 latest_state, modeVars, direct, poller, connProcs>>

\* the retry sleep is over: the next loop iteration
OpResume ==
  /\ op.pc = "sleep"
  /\ OpSend(op, op.attempt + 1, lock_holder, lock_waiters, dashboard_connected)
  /\ UNCHANGED <<wsVars, op_seen, now, rtdeVars, speedVars, callVars, flagVars, sockVars, taskVars, latest_state, modeVars, progVars,
                 direct, poller, connProcs>>

\* ------------------------------------------- a direct dashboard command
\* send_dashboard_command called by itself (the emergency-stop route)
DirectCall ==
  /\ direct = "idle"
  /\ DashUsable(dashboard_connected)
  /\ LET e == Enter("direct", lock_holder, lock_waiters)
     IN /\ direct' = e.pc
        /\ lock_holder' = e.holder
        /\ lock_waiters' = e.waiters
  /\ UNCHANGED <<wsVars, now, rtdeVars, speedVars, callVars, flagVars, sockVars, taskVars, latest_state, modeVars, progVars,
                 opVars, poller, connProcs>>

DirectAcquired ==
  /\ direct = "wait"
  /\ lock_holder = "direct"
  /\ direct' = "read"
  /\ UNCHANGED <<wsVars, now, rtdeVars, speedVars, callVars, flagVars, sockVars, taskVars, latest_state, modeVars, progVars,
                 lockVars, opVars, poller, connProcs>>

\* mutant: a reply that arrives marks the dashboard channel up again
DirectReply_Revives(RS) ==
  /\ direct = "read"
  /\ \E res \in RS \cup {None} :
       LET rel == Release(lock_waiters)
       IN /\ dashboard_connected' = (res # None)
          /\ lock_holder' = rel.holder
          /\ lock_waiters' = rel.waiters
  /\ direct' = "idle"
  /\ UNCHANGED <<wsVars, now, rtdeVars, speedVars, callVars, connected, feedback_connected, rtde_connected, sockVars, taskVars,
                 latest_state, modeVars, progVars, opVars, poller, connProcs>>

DirectReply(RS) ==
  /\ direct = "read"
  /\ \E res \in RS \cup {None} :
       LET rel == Release(lock_waiters)
       IN /\ dashboard_connected' = IF res = None THEN FALSE ELSE dashboard_connected
          /\ lock_holder' = rel.holder
          /\ lock_waiters' = rel.waiters
  /\ direct' = "idle"
  /\ UNCHANGED <<wsVars, now, rtdeVars, speedVars, callVars, connected, feedback_connected, rtde_connected, sockVars, taskVars,
                 latest_state, modeVars, progVars, opVars, poller, connProcs>>

\* ------------------------------------------------------- the status poller
PollerCmds == <<"robotmode", "programState", "safetystatus", "get loaded program">>

NextCmd(k) ==
  CASE k = "robotmode" -> "programState"
    [] k = "programState" -> "safetystatus"
    [] k = "safetystatus" -> "get loaded program"

\* 1a. Robot Mode
NewRobotMode(res) ==
  IF res # None /\ Has(res, "robotmode:")
  THEN (IF Has(res, "running") THEN 7
        ELSE IF Has(res, "idle") THEN 5
        ELSE IF Has(res, "power_on") THEN 4
        ELSE IF Has(res, "power_off") THEN 3
        ELSE IF Has(res, "booting") THEN 2
        ELSE IF Has(res, "confirm_safety") THEN 1
        ELSE IF Has(res, "disconnected") THEN 0
        ELSE robot_mode)
  ELSE robot_mode

\* 1b. Program State
NewProgramState(res) ==
  IF res # None
  THEN (IF Has(res, "playing") THEN PLAYING
        ELSE IF Has(res, "paused") THEN PAUSED
        ELSE IF Has(res, "stopped") THEN STOPPED
        ELSE program_state)
  ELSE program_state

\* 1c. Safety Status
NewSafetyMode(res) ==
  IF res # None /\ Has(res, "safetystatus:")
  THEN (IF Has(res, "cs:PROTECTIVE_STOP") THEN 3
        ELSE IF Has(res, "cs:EMERGENCY_STOP") THEN 4
        ELSE IF Has(res, "cs:NORMAL") THEN 1
        ELSE safety_mode)
  ELSE safety_mode

\* get_loaded_program's return value for the reply res
LoadedFrom(res) ==
  IF res # None /\ Has(res, "cs:Loaded program:") THEN StripLoaded(res) ELSE res

PollerSleep(p) == [p EXCEPT !.pc = "sleep", !.wake = now + PollSeconds]

\* mutant: the three status queries are made with RTDE available too
PollerRun_AlwaysModes ==
  /\ ~poller.cancel
  /\ \/ poller.pc = "start"
     \/ poller.pc = "sleep" /\ now >= poller.wake
  /\ IF ~connected
     THEN /\ poller' = [poller EXCEPT !.pc = "done"]
          /\ UNCHANGED <<lockVars, loaded_program>>
     ELSE IF ~dashboard_connected
     THEN /\ poller' = PollerSleep(poller)
          /\ UNCHANGED <<lockVars, loaded_program>>
     ELSE IF ~DashUsable(dashboard_connected)
     THEN /\ poller' = PollerSleep(poller)
          /\ loaded_program' = None
          /\ UNCHANGED lockVars
     ELSE LET e == Enter("poller", lock_holder, lock_waiters)
              first == "robotmode"
          IN /\ poller' = [poller EXCEPT !.pc = e.pc, !.cmd = first]
             /\ lock_holder' = e.holder
             /\ lock_waiters' = e.waiters
             /\ UNCHANGED loaded_program
  /\ UNCHANGED <<wsVars, now, rtdeVars, speedVars, callVars, flagVars, sockVars, taskVars, latest_state, modeVars,
                 program_state, program_state_lock_until, opVars, direct, connProcs>>

\* the task starts, or its sleep is over: `while self.connected:` and the first
\* request of the iteration
PollerRun ==
  /\ ~poller.cancel
  /\ \/ poller.pc = "start"
     \/ poller.pc = "sleep" /\ now >= poller.wake
  /\ IF ~connected
     THEN /\ poller' = [poller EXCEPT !.pc = "done"]
          /\ UNCHANGED <<lockVars, loaded_program>>
     ELSE IF ~dashboard_connected
     THEN /\ poller' = PollerSleep(poller)
          /\ UNCHANGED <<lockVars, loaded_program>>
     ELSE IF ~DashUsable(dashboard_connected)
     THEN /\ poller' = PollerSleep(poller)
          /\ loaded_program' = None
          /\ UNCHANGED lockVars
     ELSE LET e == Enter("poller", lock_holder, lock_waiters)
              first == IF ~rtde_connected THEN "robotmode" ELSE "get loaded program"
          IN /\ poller' = [poller EXCEPT !.pc = e.pc, !.cmd = first]
             /\ lock_holder' = e.holder
             /\ lock_waiters' = e.waiters
             /\ UNCHANGED loaded_program
  /\ UNCHANGED <<wsVars, now, rtdeVars, speedVars, callVars, flagVars, sockVars, taskVars, latest_state, modeVars,
                 program_state, program_state_lock_until, opVars, direct, connProcs>>

PollerAcquired ==
  /\ ~poller.cancel
  /\ poller.pc = "wait"
  /\ lock_holder = "poller"
  /\ poller' = [poller EXCEPT !.pc = "read"]
  /\ UNCHANGED <<wsVars, now, rtdeVars, speedVars, callVars, flagVars, sockVars, taskVars, latest_state, modeVars, progVars,
                 lockVars, opVars, direct, connProcs>>

\* the reply to the current request arrives; its field is updated and the next
\* request of the iteration is made, or the iteration ends in the sleep
PollerReply(RS) ==
  /\ ~poller.cancel
  /\ poller.pc = "read"
  /\ \E res \in RS \cup {None} :
       LET rel == Release(lock_waiters)
           k == poller.cmd
           dconn == IF res = None THEN FALSE ELSE dashboard_connected
           last == k = "get loaded program"
           goOn == ~last /\ DashUsable(dconn)
           e == Enter("poller", rel.holder, rel.waiters)
       IN /\ dashboard_connected' = dconn
          /\ robot_mode' = IF k = "robotmode" THEN NewRobotMode(res) ELSE robot_mode
          /\ program_state' = IF k = "programState" THEN NewProgramState(res)
                              ELSE program_state
          /\ safety_mode' = IF k = "safetystatus" THEN NewSafetyMode(res)
                            ELSE safety_mode
          /\ loaded_program' = IF last THEN LoadedFrom(res)
                               ELSE IF goOn THEN loaded_program
                               ELSE None
          /\ IF goOn
             THEN /\ poller' = [poller EXCEPT !.pc = e.pc, !.cmd = NextCmd(k)]
                  /\ lock_holder' = e.holder
                  /\ lock_waiters' = e.waiters
             ELSE /\ poller' = PollerSleep(poller)
                  /\ lock_holder' = rel.holder
                  /\ lock_waiters' = rel.waiters
  /\ UNCHANGED <<wsVars, now, rtdeVars, speedVars, callVars, connected, feedback_connected, rtde_connected, sockVars, taskVars,
                 latest_state, program_state_lock_until, opVars, direct, connProcs>>

\* the cancelled task is resumed with CancelledError, which no handler of
\* _status_poller or send_dashboard_command catches: the `async with` block
\* releases the lock, a queued acquire() is withdrawn
PollerCancelled ==
  /\ poller.cancel
  /\ poller.pc \in {"start", "sleep", "wait", "read"}
  /\ poller' = [poller EXCEPT !.pc = "done"]
  /\ IF lock_holder = "poller"
     THEN LET rel == Release(lock_waiters)
          IN /\ lock_holder' = rel.holder
             /\ lock_waiters' = rel.waiters
     ELSE /\ lock_holder' = lock_holder
          /\ lock_waiters' = SelectSeq(lock_waiters, LAMBDA c : c # "poller")
  /\ UNCHANGED <<wsVars, now, rtdeVars, speedVars, callVars, flagVars, sockVars, taskVars, latest_state, modeVars, progVars,
                 opVars, direct, connProcs>>

\* ---------------------------------------------------- the feedback listener
FrameEvery == 5     \* packet_count % 5

\* [0.0] * 6, and any other vector of six equal values
Vec(v) == [j \in 1 .. 6 |-> v]

\* A frame of the feedback stream is its length header and the 8-byte doubles
\* that follow the 4-byte header, in order.

\* mutant: the six doubles are taken one double too early
Unpack6d_OneEarly(frame, offset) ==
  [j \in 1 .. 6 |-> frame.doubles[(offset - 4) \div 8 + j - 1]]

\* struct.unpack('!6d', data[offset:offset+48]) with data = header + body: the
\* six doubles that start at the byte `offset` of the frame
Unpack6d(frame, offset) ==
  [j \in 1 .. 6 |-> frame.doubles[(offset - 4) \div 8 + j]]

\* the loop body for one frame: the header and the body are read (ok), or a
\* read fails, as it does for a header that announces less than itself
FeedbackHandles(frame, ok) ==
  IF ~ok \/ frame.length < 4
  THEN /\ fb' = [fb EXCEPT !.pc = "done"]
       /\ feedback_connected' = FALSE
       /\ UNCHANGED <<latest_state, latest_speed>>
  ELSE LET n == (fb.count + 1) % FrameEvery
       IN /\ fb' = [fb EXCEPT !.count = n]
          /\ IF n = 0 /\ frame.length >= 444 + 48
             THEN /\ latest_state' = <<Unpack6d(frame, 252), Unpack6d(frame, 444)>>
                  /\ latest_speed' = rtde_speed_slider
             ELSE UNCHANGED <<latest_state, latest_speed>>
          /\ UNCHANGED feedback_connected

\* one frame of Frames is read and handled, or the read fails
FeedbackFrame(Frames) ==
  /\ fb.pc = "run"
  /\ ~fb.cancel
  /\ IF ~(feedback_connected /\ feedback_writer # None)
     THEN /\ fb' = [fb EXCEPT !.pc = "done"]
          /\ feedback_connected' = FALSE
          /\ UNCHANGED <<latest_state, latest_speed>>
     ELSE \E frame \in Frames : \E ok \in BOOLEAN : FeedbackHandles(frame, ok)
  /\ UNCHANGED <<wsVars, now, rtdeVars, rtde_speed_slider, callVars, connected, dashboard_connected, rtde_connected, sockVars, taskVars,
                 modeVars, progVars, lockVars, opVars, direct, poller, workers, ctl>>

\* the cancelled task is resumed with CancelledError at its read or sleep
FeedbackCancelled ==
  /\ fb.cancel
  /\ fb.pc = "run"
  /\ fb' = [fb EXCEPT !.pc = "done"]
  /\ UNCHANGED <<wsVars, now, rtdeVars, speedVars, callVars, flagVars, sockVars, taskVars, latest_state, modeVars, progVars,
                 lockVars, opVars, direct, poller, workers, ctl>>

\* -------------------------------------------------- the RTDE worker thread
\* `while not self.rtde_stop_event.is_set() and self.rtde_connected and self.rtde_con`
WorkerLoop(w) ==
  /\ workers[w] = "top"
  /\ IF ~rtde_stop_event /\ rtde_connected /\ rtde_con # None
     THEN /\ workers' = [workers EXCEPT ![w] = IF rtde_con = "open" THEN "recv"
                                                ELSE "recv_closed"]
          /\ UNCHANGED rtde_connected
     ELSE /\ workers' = [workers EXCEPT ![w] = "done"]
          /\ rtde_connected' = FALSE
  /\ UNCHANGED <<wsVars, now, rtdeVars, speedVars, callVars, connected, feedback_connected, dashboard_connected, sockVars,
                 taskVars, latest_state, modeVars, progVars, lockVars, opVars, direct,
                 poller, fb, ctl>>

\* mutant: a failed receive marks every channel down
WorkerReceive_DropsAll(w) ==
  /\ workers[w] \in {"recv", "recv_closed"}
  /\ \E got \in BOOLEAN :
       IF got /\ workers[w] = "recv"
       THEN /\ workers' = [workers EXCEPT ![w] = "modes"]
            /\ UNCHANGED flagVars
       ELSE /\ workers' = [workers EXCEPT ![w] = "done"]
            /\ connected' = FALSE
            /\ feedback_connected' = FALSE
            /\ dashboard_connected' = FALSE
            /\ rtde_connected' = FALSE
  /\ UNCHANGED <<wsVars, now, rtdeVars, speedVars, callVars, sockVars,
                 taskVars, latest_state, modeVars, progVars, lockVars, opVars, direct,
                 poller, fb, ctl>>

\* self.rtde_con.receive() returns a data package, or returns None / raises
WorkerReceive(w) ==
  /\ workers[w] \in {"recv", "recv_closed"}
  /\ \E got \in BOOLEAN :
       IF got /\ workers[w] = "recv"
       THEN /\ workers' = [workers EXCEPT ![w] = "modes"]
            /\ UNCHANGED rtde_connected
       ELSE /\ workers' = [workers EXCEPT ![w] = "done"]
            /\ rtde_connected' = FALSE
  /\ UNCHANGED <<wsVars, now, rtdeVars, speedVars, callVars, connected, feedback_connected, dashboard_connected, sockVars,
                 taskVars, latest_state, modeVars, progVars, lockVars, opVars, direct,
                 poller, fb, ctl>>

\* mutant: "resuming" is taken for paused
RuntimeToProgram_ResumingPaused(rs) ==
  IF rs = 0 THEN STOPPED
  ELSE IF rs = 1 THEN PLAYING
  ELSE IF rs \in {2, 3, 4} THEN PAUSED
  ELSE program_state

\* Map RTDE runtime_state to internal program_state
RuntimeToProgram(rs) ==
  IF rs = 0 THEN STOPPED
  ELSE IF rs \in {1, 4} THEN PLAYING
  ELSE IF rs \in {2, 3} THEN PAUSED
  ELSE program_state

\* the fields a recipe of the names has
AllFields(names) == {names[i] : i \in 1 .. Len(names)}

\* getattr(state, name, None) for a field whose values in a package are VS:
\* <<v>> for a value v, <<>> for None (the field is not in the recipe)
Field(name, VS) == IF name \in AllFields(rtde_outputs) THEN VS ELSE {<<>>}

\* "Update modes and speed", "Map RTDE runtime_state to internal program_state"
\* for a package with the values rm, sm, rs
PackageModes(rm, sm, rs) ==
  /\ robot_mode' = IF rm # <<>> THEN rm[1] ELSE robot_mode
  /\ safety_mode' = IF sm # <<>> THEN sm[1] ELSE safety_mode
  /\ program_state' = IF rs # <<>> /\ now > program_state_lock_until
                      THEN RuntimeToProgram(rs[1]) ELSE program_state

\* the modes of the package are stored; RM, SM, RS are the values the package
\* may carry for robot_mode, safety_mode and output_runtime_state
WorkerModes(w, RM, SM, RS) ==
  /\ workers[w] = "modes"
  /\ \E rm \in Field("robot_mode", RM) : \E sm \in Field("safety_mode", SM) :
     \E rs \in Field("output_runtime_state", RS) : PackageModes(rm, sm, rs)
  /\ workers' = [workers EXCEPT ![w] = "snap"]
  /\ UNCHANGED <<wsVars, now, rtdeVars, speedVars, callVars, flagVars, sockVars, taskVars, latest_state,
                 program_state_lock_until, loaded_program, lockVars, opVars, direct,
                 poller, fb, ctl>>

Larger(a, b) == IF a >= b THEN a ELSE b

\* mutant: a target_speed_fraction of 1 is taken as a reading too
SpeedOf_TargetUpToOne(ss, tsf) ==
  IF tsf # <<>> /\ 0 < tsf[1] /\ tsf[1] <= SpeedOne THEN tsf[1]
  ELSE IF ss # <<>> /\ 0 < ss[1] /\ ss[1] < SpeedOne THEN ss[1]
  ELSE Larger(IF ss # <<>> THEN ss[1] ELSE SpeedOne,
              IF tsf # <<>> THEN tsf[1] ELSE SpeedOne)

\* "Robust Speed Handling": the speed taken from speed_scaling ss and
\* target_speed_fraction tsf, in tenths
SpeedOf(ss, tsf) ==
  IF tsf # <<>> /\ 0 < tsf[1] /\ tsf[1] < SpeedOne THEN tsf[1]
  ELSE IF ss # <<>> /\ 0 < ss[1] /\ ss[1] < SpeedOne THEN ss[1]
  ELSE Larger(IF ss # <<>> THEN ss[1] ELSE SpeedOne,
              IF tsf # <<>> THEN tsf[1] ELSE SpeedOne)

\* the speed of the package is cached, and `self.latest_state = {...}` when the
\* package has actual_q and actual_TCP_pose; SS and TSF are the values the
\* package may carry for speed_scaling and target_speed_fraction
WorkerSnapshot(w, SS, TSF) ==
  /\ workers[w] = "snap"
  /\ \E ss \in Field("speed_scaling", SS) : \E tsf \in Field("target_speed_fraction", TSF) :
     \E q \in Field("actual_q", {<<Vec(1)>>}) : \E tcp \in Field("actual_TCP_pose", {<<Vec(2)>>}) :
       /\ rtde_speed_slider' = SpeedOf(ss, tsf)
       /\ latest_state' = IF q # <<>> /\ tcp # <<>> THEN q \o tcp ELSE latest_state
       /\ latest_speed' = IF q # <<>> /\ tcp # <<>> THEN SpeedOf(ss, tsf) ELSE latest_speed
  /\ workers' = [workers EXCEPT ![w] = "top"]
  /\ UNCHANGED <<wsVars, now, rtdeVars, callVars, flagVars, sockVars, taskVars, modeVars, progVars, lockVars,
                 opVars, direct, poller, fb, ctl>>

\* ----------------------------------------------------------------- connect
\* "Start listener tasks" and `return True`, with the channel flags fbc and dc
StartTasks(c, fbc, dc) ==
  /\ feedback_task' = IF fbc THEN "task" ELSE feedback_task
  /\ fb' = IF fbc THEN [NoListener EXCEPT !.pc = "run"] ELSE fb
  /\ status_poller_task' = IF dc \/ fbc THEN "task" ELSE status_poller_task
  /\ poller' = IF dc \/ fbc THEN [NoTask EXCEPT !.pc = "start"] ELSE poller
  /\ ctl' = [c EXCEPT !.pc = "idle", !.last = "connect_ok", !.result = TRUE]

\* mutant: a failure to open the command socket is not fatal
AfterCommand_GoOn(ok) == "c_fb"

\* where connect() goes after the command socket: on to the feedback socket,
\* or out through one of its two handlers
AfterCommand(ok) == IF ok THEN "c_fb" ELSE "idle"

\* connect() is called, by the control path, when no session is open
ConnectCall ==
  /\ ctl.pc = "idle"
  /\ ctl.last # "connect_ok"
  /\ ctl.calls < MaxCalls
  /\ ctl' = [ctl EXCEPT !.pc = "c_cmd", !.op = "connect", !.calls = @ + 1,
                        !.before = ctl.last, !.reqs = <<>>, !.raised = FALSE,
                        !.sync = "none"]
  /\ UNCHANGED <<wsVars, now, rtdeVars, speedVars, callVars, flagVars, sockVars, taskVars, latest_state, modeVars, progVars,
                 lockVars, opVars, direct, poller, fb, workers>>

\* 1. Primary command connection
ConnectCommand ==
  /\ ctl.pc = "c_cmd"
  /\ \E ok \in BOOLEAN :
       /\ connected' = ok
       /\ writer' = IF ok THEN "open" ELSE writer
       /\ ctl' = IF AfterCommand(ok) = "idle"
                 THEN [ctl EXCEPT !.pc = "idle", !.last = "connect_fail", !.result = FALSE]
                 ELSE [ctl EXCEPT !.pc = AfterCommand(ok)]
  /\ UNCHANGED <<wsVars, now, rtdeVars, speedVars, callVars, feedback_connected, dashboard_connected, rtde_connected,
                 feedback_writer, dashboard_writer, rtde_con, taskVars, latest_state,
                 modeVars, progVars, lockVars, opVars, direct, poller, fb, workers>>

\* mutant: the feedback channel is marked available without its socket
FeedbackAvailable_Always(ok) == TRUE

\* `self.feedback_connected = True`, or False in the handler
FeedbackAvailable(ok) == ok

\* 2. Feedback connection
ConnectFeedback ==
  /\ ctl.pc = "c_fb"
  /\ \E ok \in BOOLEAN :
       /\ feedback_connected' = FeedbackAvailable(ok)
       /\ feedback_writer' = IF ok THEN "open" ELSE feedback_writer
  /\ ctl' = [ctl EXCEPT !.pc = "c_dash"]
  /\ UNCHANGED <<wsVars, now, rtdeVars, speedVars, callVars, connected, dashboard_connected, rtde_connected, writer,
                 dashboard_writer, rtde_con, taskVars, latest_state, modeVars, progVars,
                 lockVars, opVars, direct, poller, fb, workers>>

\* 4. RTDE connection is reached with the dashboard flag dc: with the library,
\* the RTDE object is made and its connect() awaited; without, the tasks start
RtdeStage(lib, dc) ==
  IF lib
  THEN /\ rtde_con' = "closed"
       /\ ctl' = [ctl EXCEPT !.pc = "c_rtde"]
       /\ UNCHANGED <<feedback_task, status_poller_task, poller, fb>>
  ELSE /\ StartTasks(ctl, feedback_connected, dc)
       /\ UNCHANGED rtde_con

\* 3. Dashboard connection
ConnectDashboard(lib) ==
  /\ ctl.pc = "c_dash"
  /\ \E ok \in BOOLEAN :
       IF ok
       THEN /\ dashboard_connected' = TRUE
            /\ dashboard_writer' = "open"
            /\ ctl' = [ctl EXCEPT !.pc = "c_banner"]
            /\ UNCHANGED <<rtde_con, feedback_task, status_poller_task, poller, fb>>
       ELSE /\ dashboard_connected' = FALSE
            /\ UNCHANGED dashboard_writer
            /\ RtdeStage(lib, FALSE)
  /\ UNCHANGED <<wsVars, now, rtdeVars, speedVars, callVars, connected, feedback_connected, rtde_connected, writer,
                 feedback_writer, rtde_stop_event, rtde_thread, latest_state, modeVars,
                 progVars, lockVars, opVars, direct, workers>>

\* "Read initial banner": it arrives, or the 1 s timeout passes
ConnectBanner(lib) ==
  /\ ctl.pc = "c_banner"
  /\ RtdeStage(lib, dashboard_connected)
  /\ UNCHANGED <<wsVars, now, rtdeVars, speedVars, callVars, flagVars, writer, feedback_writer, dashboard_writer,
                 rtde_stop_event, rtde_thread, latest_state, modeVars, progVars,
                 lockVars, opVars, direct, workers>>

\* await asyncio.to_thread(self.rtde_con.connect); Ctrls are the controllers
\* that may be at the other end, each with the output and input fields it supports
ConnectRtde(Ctrls) ==
  /\ ctl.pc = "c_rtde"
  /\ \E ok \in BOOLEAN :
       IF ok
       THEN /\ rtde_con' = "open"
            /\ ctl' = [ctl EXCEPT !.pc = "c_hs"]
            /\ \E c \in Ctrls : hs' = [IdleHs EXCEPT !.out = c.out, !.inp = c.inp]
            /\ UNCHANGED <<rtde_connected, feedback_task, status_poller_task, poller, fb>>
       ELSE /\ rtde_connected' = FALSE
            /\ UNCHANGED <<rtde_con, hs>>
            /\ StartTasks(ctl, feedback_connected, dashboard_connected)
  /\ UNCHANGED <<wsVars, now, rtde_watch_input, rtde_outputs, speedVars, callVars, connected,
                 feedback_connected, dashboard_connected, writer,
                 feedback_writer, dashboard_writer, rtde_stop_event, rtde_thread,
                 latest_state, modeVars, progVars, lockVars, opVars, direct, workers>>

\* --------------------------------------------------------- the RTDE handshake
\* the recipes of record_config.xml: the fields the worker reads from a
\* package, and the fields set_robot_speed writes
StateNames ==
  <<"actual_q", "actual_TCP_pose", "speed_scaling", "target_speed_fraction",
    "robot_mode", "safety_mode", "output_runtime_state">>

SpeedNames == <<"speed_slider_mask", "speed_slider_fraction">>

\* self.rtde_config.get_recipe(recipe_name)
RecipeNames(recipe) == IF recipe = "state" THEN StateNames ELSE SpeedNames

\* what send_output_setup / send_input_setup of the fields `names` gives with a
\* controller that supports the fields `support`: the recipe ("ok"), nothing
\* ("no"), or, when raises is true, possibly an exception ("error")
SetupResults(names, support, raises) ==
  (IF \A i \in 1 .. Len(names) : names[i] \in support THEN {"ok"} ELSE {"no"})
    \cup (IF raises THEN {"error"} ELSE {})

\* the handshake returns False: connect() marks RTDE unavailable and awaits
\* rtde_con.disconnect
HandshakeFalse == [hs |-> IdleHs, pc |-> "c_hs_failed", watch |-> rtde_watch_input,
                   up |-> FALSE]

\* _setup_rtde_recipe of recipe h.recipe returns res (<<>> for None): after the
\* outputs the inputs are set up or the handshake fails; after the inputs,
\* whatever they gave, send_start is called
AfterRecipe(h, res) ==
  IF h.recipe = "state"
  THEN IF res = <<>>
       THEN HandshakeFalse
       ELSE [hs |-> [h EXCEPT !.recipe = "set_speed", !.i = 0, !.supported_names = <<>>,
                              !.accepted = {}],
             pc |-> "c_hs_full", watch |-> rtde_watch_input, up |-> rtde_connected]
  ELSE [hs |-> [h EXCEPT !.i = 0, !.supported_names = <<>>, !.accepted = {}],
        pc |-> "c_hs_start", watch |-> res, up |-> rtde_connected]

\* the request the handshake makes at pc with recipe r
RequestAt(pc, r) ==
  IF pc = "c_hs" THEN <<"get_controller_version">>
  ELSE IF pc \in {"c_hs_full", "c_hs_field", "c_hs_final"}
  THEN (IF r = "state" THEN <<"send_output_setup">> ELSE <<"send_input_setup">>)
  ELSE IF pc = "c_hs_start" THEN <<"send_start">>
  ELSE <<>>

\* the control path after the request of this step answered res, going to pc;
\* the history notes the kind of request, once for requests of one kind in a row
CtlGoes(pc, res) ==
  LET new == RequestAt(ctl.pc, hs.recipe)
      reqs == ctl.reqs
  IN [ctl EXCEPT !.pc = pc,
                 !.reqs = IF new = <<>> \/ (reqs # <<>> /\ reqs[Len(reqs)] = new[1])
                          THEN reqs
                          ELSE reqs \o new,
                 !.raised = (res = "error")]

\* the handshake moves on as the record a says, after the answer res
HandshakeGoes(a, res) ==
  /\ hs' = a.hs
  /\ ctl' = CtlGoes(a.pc, res)
  /\ rtde_watch_input' = a.watch
  /\ rtde_connected' = a.up

\* 1. Get Controller Version, 2. Load config, and the full 'state' setup is sent
HandshakeVersion(raises) ==
  /\ ctl.pc = "c_hs"
  /\ \E res \in {"ok"} \cup (IF raises THEN {"error"} ELSE {}) :
       IF res = "ok"
       THEN HandshakeGoes([hs |-> [hs EXCEPT !.recipe = "state"], pc |-> "c_hs_full",
                           watch |-> rtde_watch_input, up |-> rtde_connected], res)
       ELSE HandshakeGoes(HandshakeFalse, res)
  /\ UNCHANGED <<wsVars, now, rtde_outputs, speedVars, callVars, connected, feedback_connected,
                 dashboard_connected, sockVars, taskVars, latest_state, modeVars,
                 progVars, lockVars, opVars, direct, poller, fb, workers>>

\* "Try full setup first": the recipe, or on to field-by-field discovery with
\* the first field
HandshakeFull(raises) ==
  /\ ctl.pc = "c_hs_full"
  /\ LET names == RecipeNames(hs.recipe)
     IN \E res \in SetupResults(names, IF hs.recipe = "state" THEN hs.out ELSE hs.inp,
                                raises) :
          IF res = "ok"
          THEN /\ HandshakeGoes(AfterRecipe(hs, names), res)
               /\ rtde_outputs' = IF hs.recipe = "state" THEN names ELSE rtde_outputs
          ELSE /\ hs' = [hs EXCEPT !.i = 1, !.supported_names = <<>>]
               /\ ctl' = CtlGoes("c_hs_field", res)
               /\ UNCHANGED <<rtde_outputs, rtde_watch_input, rtde_connected>>
  /\ UNCHANGED <<wsVars, now, speedVars, callVars, connected, feedback_connected,
                 dashboard_connected, sockVars, taskVars, latest_state, modeVars,
                 progVars, lockVars, opVars, direct, poller, fb, workers>>

\* mutant: a field is kept whatever its setup gave
Probed_KeepAll(sup, name, res) == Append(sup, name)

\* `if success: supported_names.append(name)`; an exception skips the field
Probed(sup, name, res) == IF res = "ok" THEN Append(sup, name) ELSE sup

\* "Field-by-field discovery": the field names[hs.i] has been tried; after the
\* last field, nothing supported gives None, else the final setup is sent
HandshakeField(raises) ==
  /\ ctl.pc = "c_hs_field"
  /\ LET names == RecipeNames(hs.recipe)
         name == names[hs.i]
     IN \E res \in SetupResults(<<name>>, IF hs.recipe = "state" THEN hs.out ELSE hs.inp,
                                raises) :
          LET sup == Probed(hs.supported_names, name, res)
              h == [hs EXCEPT !.supported_names = sup,
                              !.accepted = IF res = "ok" THEN @ \cup {name} ELSE @]
          IN /\ rtde_outputs' = IF hs.recipe = "state" /\ res = "ok" THEN <<name>>
                                ELSE rtde_outputs
             /\ IF hs.i < Len(names)
                THEN /\ hs' = [h EXCEPT !.i = @ + 1]
                     /\ ctl' = CtlGoes("c_hs_field", res)
                     /\ UNCHANGED <<rtde_watch_input, rtde_connected>>
                ELSE IF sup = <<>>
                THEN HandshakeGoes(AfterRecipe(h, <<>>), res)
                ELSE /\ hs' = h
                     /\ ctl' = CtlGoes("c_hs_final", res)
                     /\ UNCHANGED <<rtde_watch_input, rtde_connected>>
  /\ UNCHANGED <<wsVars, now, speedVars, callVars, connected, feedback_connected,
                 dashboard_connected, sockVars, taskVars, latest_state, modeVars,
                 progVars, lockVars, opVars, direct, poller, fb, workers>>

\* "Final setup with supported fields"
HandshakeFinal(raises) ==
  /\ ctl.pc = "c_hs_final"
  /\ \E res \in SetupResults(hs.supported_names,
                             IF hs.recipe = "state" THEN hs.out ELSE hs.inp, raises) :
       IF res = "ok"
       THEN /\ HandshakeGoes(AfterRecipe(hs, hs.supported_names), res)
            /\ rtde_outputs' = IF hs.recipe = "state" THEN hs.supported_names
                               ELSE rtde_outputs
       ELSE /\ HandshakeGoes(AfterRecipe(hs, <<>>), res)
            /\ UNCHANGED rtde_outputs
  /\ UNCHANGED <<wsVars, now, speedVars, callVars, connected, feedback_connected,
                 dashboard_connected, sockVars, taskVars, latest_state, modeVars,
                 progVars, lockVars, opVars, direct, poller, fb, workers>>

\* mutant: RTDE is marked available whatever send_start gave
Synchronized_Always(res) == TRUE

\* `if not await asyncio.to_thread(self.rtde_con.send_start): return False`
Synchronized(res) == res = "ok"

\* 5. Start synchronization; `if await self._rtde_handshake():` the worker
\* thread is started, else the RTDE connection is closed again
HandshakeStart(raises) ==
  /\ ctl.pc = "c_hs_start"
  /\ \E res \in {"ok", "no"} \cup (IF raises THEN {"error"} ELSE {}) :
       IF Synchronized(res)
       THEN /\ rtde_connected' = TRUE
            /\ rtde_stop_event' = FALSE
            /\ rtde_thread' = "thread"
            /\ workers' = [workers EXCEPT ![ctl.calls] = "top"]
            /\ StartTasks([CtlGoes(ctl.pc, res) EXCEPT !.sync = res],
                          feedback_connected, dashboard_connected)
       ELSE /\ rtde_connected' = FALSE
            /\ ctl' = [CtlGoes("c_hs_failed", res) EXCEPT !.sync = res]
            /\ UNCHANGED <<rtde_stop_event, rtde_thread, workers, feedback_task,
                           status_poller_task, poller, fb>>
  /\ hs' = IdleHs
  /\ UNCHANGED <<wsVars, now, rtde_watch_input, rtde_outputs, speedVars, callVars, connected,
                 feedback_connected, dashboard_connected, sockVars,
                 latest_state, modeVars, progVars, lockVars, opVars, direct>>

\* await asyncio.to_thread(self.rtde_con.disconnect) after a failed handshake
ConnectHandshakeFailed ==
  /\ ctl.pc = "c_hs_failed"
  /\ rtde_con' = "closed"
  /\ StartTasks(ctl, feedback_connected, dashboard_connected)
  /\ UNCHANGED <<wsVars, now, rtdeVars, speedVars, callVars, flagVars, writer, feedback_writer, dashboard_writer,
                 rtde_stop_event, rtde_thread, latest_state, modeVars, progVars,
                 lockVars, opVars, direct, workers>>

\* -------------------------------------------------------------- disconnect
FeedbackAlive == fb.pc = "run"

PollerAlive == poller.pc \in {"start", "sleep", "wait", "read"}

\* mutant: the stop event is set whether or not a thread is recorded
DiscStopEvent_Always == TRUE

\* `if self.rtde_thread: self.rtde_stop_event.set()`
DiscStopEvent == IF rtde_thread # None THEN TRUE ELSE rtde_stop_event

\* disconnect() runs on from position P (A: the call; B: the feedback task has
\* been awaited; C: the poller task has been awaited; D: the RTDE connection has
\* been closed) until it has to wait again, or to its end; c is the control
\* path's record at that moment
DiscContinue(P, c) ==
  IF P = "A" /\ feedback_task # None /\ FeedbackAlive
  THEN /\ fb' = [fb EXCEPT !.cancel = TRUE]
       /\ ctl' = [c EXCEPT !.pc = "d_fb"]
       /\ UNCHANGED <<flagVars, sockVars, taskVars, latest_state, latest_speed, poller>>
  ELSE IF P \in {"A", "B"} /\ status_poller_task # None /\ PollerAlive
  THEN /\ feedback_task' = None
       /\ poller' = [poller EXCEPT !.cancel = TRUE]
       /\ ctl' = [c EXCEPT !.pc = "d_poll"]
       /\ UNCHANGED <<flagVars, sockVars, rtde_stop_event, status_poller_task,
                      rtde_thread, latest_state, latest_speed, fb>>
  ELSE IF P # "D" /\ rtde_con # None
  THEN /\ feedback_task' = None
       /\ status_poller_task' = None
       /\ rtde_stop_event' = DiscStopEvent
       /\ rtde_thread' = None
       /\ ctl' = [c EXCEPT !.pc = "d_rtde"]
       /\ UNCHANGED <<flagVars, sockVars, latest_state, latest_speed, poller, fb>>
  ELSE /\ feedback_task' = None
       /\ status_poller_task' = None
       /\ rtde_stop_event' = IF P # "D" THEN DiscStopEvent ELSE rtde_stop_event
       /\ rtde_thread' = None
       /\ rtde_con' = None
       /\ writer' = None
       /\ feedback_writer' = None
       /\ dashboard_writer' = None
       /\ connected' = FALSE
       /\ feedback_connected' = FALSE
       /\ dashboard_connected' = FALSE
       /\ rtde_connected' = FALSE
       /\ latest_state' = <<>>
       /\ latest_speed' = 0
       /\ ctl' = [c EXCEPT !.pc = "idle", !.last = "disconnect"]
       /\ UNCHANGED <<poller, fb>>

\* disconnect() is called
DisconnectCall ==
  /\ ctl.pc = "idle"
  /\ ctl.calls < MaxCalls
  /\ DiscContinue("A", [ctl EXCEPT !.op = "disconnect", !.calls = @ + 1,
                                   !.before = ctl.last])
  /\ UNCHANGED <<wsVars, now, rtdeVars, rtde_speed_slider, callVars, modeVars, progVars, lockVars, opVars, direct, workers>>

\* `await self.feedback_task` returns
DisconnectAfterFeedback ==
  /\ ctl.pc = "d_fb"
  /\ fb.pc = "done"
  /\ DiscContinue("B", ctl)
  /\ UNCHANGED <<wsVars, now, rtdeVars, rtde_speed_slider, callVars, modeVars, progVars, lockVars, opVars, direct, workers>>

\* `await self.status_poller_task` returns
DisconnectAfterPoller ==
  /\ ctl.pc = "d_poll"
  /\ poller.pc = "done"
  /\ DiscContinue("C", ctl)
  /\ UNCHANGED <<wsVars, now, rtdeVars, rtde_speed_slider, callVars, modeVars, progVars, lockVars, opVars, direct, workers>>

\* `await asyncio.to_thread(self.rtde_con.disconnect)` returns: the RTDE socket
\* is closed, and a receive() blocked on it can only fail
DisconnectAfterRtde ==
  /\ ctl.pc = "d_rtde"
  /\ DiscContinue("D", ctl)
  /\ workers' = [w \in WorkerIds |-> IF workers[w] = "recv" THEN "recv_closed"
                                      ELSE workers[w]]
  /\ UNCHANGED <<wsVars, now, rtdeVars, rtde_speed_slider, callVars, modeVars, progVars, lockVars, opVars, direct>>

\* is_connected()
IsConnected == connected

\* mutant: no defaulted snapshot before the first telemetry
ReadState_NoFallback ==
  IF latest_state # <<>>
  THEN {[joints |-> latest_state[1], tcp_pose |-> latest_state[2],
         speed_slider |-> latest_speed,
         robot_mode |-> robot_mode,
         safety_mode |-> safety_mode, program_state |-> program_state,
         loaded_program |-> loaded_program]}
  ELSE {}

\* read_state(): the set holding the returned dict, empty for None
ReadState ==
  IF latest_state # <<>>
  THEN {[joints |-> latest_state[1], tcp_pose |-> latest_state[2],
         speed_slider |-> latest_speed,
         robot_mode |-> robot_mode,
         safety_mode |-> safety_mode, program_state |-> program_state,
         loaded_program |-> loaded_program]}
  ELSE IF connected
  THEN {[joints |-> Vec(0), tcp_pose |-> Vec(0), speed_slider |-> rtde_speed_slider,
         robot_mode |-> robot_mode,
         safety_mode |-> safety_mode, program_state |-> program_state,
         loaded_program |-> loaded_program]}
  ELSE {}

\* ------------------------------------------------------------- send_command
\* A script text is a sequence of pieces, each a run of characters: a newline,
\* a blank, a statement, a procedure header, or a statement that assigns to a
\* variable whose name ends in "def".
NL == "\n"

Pieces == {NL, " ", "x=1", "def f():", "mydef = 1"}

\* the piece the fallback of set_robot_speed sends, its argument kept apart
SpeedScript == <<"set_speed_slider_fraction(v)">>

\* the pieces strip() removes at either end
IsSpace(piece) == piece \in {NL, " "}

\* `"def " in piece`: the four characters d, e, f, blank occur in the piece
HasDefBlank(piece) == piece \in {"def f():", "mydef = 1"}

\* urscript.strip()
RECURSIVE Strip(_)
Strip(t) ==
  IF t = <<>> THEN t
  ELSE IF IsSpace(t[1]) THEN Strip(Tail(t))
  ELSE IF IsSpace(t[Len(t)]) THEN Strip(SubSeq(t, 1, Len(t) - 1))
  ELSE t

\* `if "\n" in urscript.strip() and "def " not in urscript`
Wraps(urscript) ==
  /\ \E i \in 1 .. Len(Strip(urscript)) : Strip(urscript)[i] = NL
  /\ ~\E i \in 1 .. Len(urscript) : HasDefBlank(urscript[i])

\* `if not command.endswith("\n"): command += "\n"`
WithNewline(t) == IF t # <<>> /\ t[Len(t)] = NL THEN t ELSE t \o <<NL>>

\* the bytes send_command writes for urscript
Frame(urscript) ==
  IF Wraps(urscript)
  THEN <<"def secondary_program():", NL>> \o WithNewline(urscript) \o <<"end", NL>>
  ELSE WithNewline(urscript)

\* one transmission: the channel, the text, and the speed argument if any
Sent(ch, text, value) == [ch |-> ch, text |-> text, value |-> value]

\* `if not self.connected or not self.writer: return False`
CanSend == connected /\ writer # None

\* send_command(urscript) is called
SendCommandCall(Texts) ==
  /\ sc.pc = "idle"
  /\ \E t \in Texts :
       IF CanSend
       THEN /\ sc' = [pc |-> "drain", urscript |-> t, ret |-> "none"]
            /\ wire' = <<Sent("command", Frame(t), <<>>)>>
       ELSE /\ sc' = [pc |-> "idle", urscript |-> t, ret |-> "false"]
            /\ wire' = <<>>
  /\ UNCHANGED <<wsVars, now, rtdeVars, speedVars, sp, flagVars, sockVars, taskVars,
                 latest_state, modeVars, progVars, lockVars, opVars, direct,
                 poller, connProcs>>

\* mutant: a failed write leaves the flag as it was
SendCommandDrain_KeepsFlag(Res) ==
  /\ sc.pc = "drain"
  /\ \E res \in Res :
       sc' = [sc EXCEPT !.pc = "idle", !.ret = IF res = "ok" THEN "true" ELSE "false"]
  /\ UNCHANGED <<wsVars, now, rtdeVars, speedVars, sp, wire, flagVars, sockVars, taskVars,
                 latest_state, modeVars, progVars, lockVars, opVars, direct,
                 poller, connProcs>>

\* await self.writer.drain() returns or raises
SendCommandDrain(Res) ==
  /\ sc.pc = "drain"
  /\ \E res \in Res :
       /\ sc' = [sc EXCEPT !.pc = "idle", !.ret = IF res = "ok" THEN "true" ELSE "false"]
       /\ connected' = IF res = "ok" THEN connected ELSE FALSE
  /\ UNCHANGED <<wsVars, now, rtdeVars, speedVars, sp, wire, feedback_connected,
                 dashboard_connected, rtde_connected, sockVars, taskVars,
                 latest_state, modeVars, progVars, lockVars, opVars, direct,
                 poller, connProcs>>

\* ----------------------------------------------------------- set_robot_speed
Smaller(a, b) == IF b < a THEN b ELSE a

\* mutant: the fraction is bounded above only
Clamp_NoFloor(fraction) == Smaller(SpeedOne, fraction)

\* safe_fraction = max(0.0, min(1.0, fraction))
Clamp(fraction) == Larger(0, Smaller(SpeedOne, fraction))

\* mutant: the input recipe is not looked at
RtdeWritable_NoRecipe == rtde_connected /\ rtde_con # None

\* `if self.rtde_connected and self.rtde_con and self.rtde_watch_input` and the
\* two hasattr tests on the negotiated input recipe
RtdeWritable ==
  /\ rtde_connected
  /\ rtde_con # None
  /\ rtde_watch_input # <<>>
  /\ {"speed_slider_mask", "speed_slider_fraction"} \subseteq AllFields(rtde_watch_input)

\* `return await self.send_command(script)`, up to its drain
SpeedFallback(s, sent) ==
  IF CanSend
  THEN /\ sp' = [s EXCEPT !.pc = "sp_drain"]
       /\ wire' = Append(sent, Sent("command", Frame(SpeedScript), <<s.safe_fraction>>))
  ELSE /\ sp' = [s EXCEPT !.pc = "idle", !.ret = "false"]
       /\ wire' = sent

\* set_robot_speed(fraction) is called; noted is the argument kept as history
SpeedBegins(fraction, noted) ==
  /\ LET safe_fraction == Clamp(fraction)
         s == [pc |-> "idle", fraction |-> noted, safe_fraction |-> safe_fraction,
               ret |-> "none"]
     IN /\ rtde_speed_slider' = safe_fraction
        /\ IF RtdeWritable
           THEN /\ sp' = [s EXCEPT !.pc = "sp_rtde"]
                /\ wire' = <<>>
           ELSE SpeedFallback(s, <<>>)
  /\ UNCHANGED <<wsVars, now, rtdeVars, latest_speed, sc, flagVars, sockVars, taskVars,
                 latest_state, modeVars, progVars, lockVars, opVars, direct,
                 poller, connProcs>>

SetSpeedCall(Fractions) ==
  /\ sp.pc = "idle"
  /\ \E f \in Fractions : SpeedBegins(f, f)

\* await asyncio.to_thread(self.rtde_con.send, ...) returns or raises
SetSpeedSent(Res) ==
  /\ sp.pc = "sp_rtde"
  /\ \E res \in Res :
       IF res = "ok"
       THEN /\ sp' = [sp EXCEPT !.pc = "idle", !.ret = "true"]
            /\ wire' = Append(wire, Sent("rtde", <<>>, <<sp.safe_fraction>>))
       ELSE SpeedFallback(sp, wire)
  /\ UNCHANGED <<wsVars, now, rtdeVars, speedVars, sc, flagVars, sockVars, taskVars,
                 latest_state, modeVars, progVars, lockVars, opVars, direct,
                 poller, connProcs>>

\* the drain of the fallback's send_command returns or raises
SetSpeedDrain(Res) ==
  /\ sp.pc = "sp_drain"
  /\ \E res \in Res :
       /\ sp' = [sp EXCEPT !.pc = "idle", !.ret = IF res = "ok" THEN "true" ELSE "false"]
       /\ connected' = IF res = "ok" THEN connected ELSE FALSE
  /\ UNCHANGED <<wsVars, now, rtdeVars, speedVars, sc, wire, feedback_connected,
                 dashboard_connected, rtde_connected, sockVars, taskVars,
                 latest_state, modeVars, progVars, lockVars, opVars, direct,
                 poller, connProcs>>

\* ------------------------------------------- the state broadcast (api/routes/robot.py)
\* mutant: a task is created at every attach
NeedsTask_Always == TRUE

\* `if not self.broadcast_task or self.broadcast_task.done()`
NeedsTask == broadcast_task = 0 \/ tasks[broadcast_task].pc = "done"

\* websocket_robot_state: manager.connect() is called and awaits accept()
WsConnect(c) ==
  /\ websocket[c] = "none"
  /\ websocket' = [websocket EXCEPT ![c] = "accepting"]
  /\ UNCHANGED <<robotVars, active_connections, broadcast_task, tasks>>

\* accept() returns: the websocket is appended, the broadcast task created if
\* there is none running, and the handler waits in receive_text(); or accept()
\* raises and the handler ends
WsAccepted(c) ==
  /\ websocket[c] = "accepting"
  /\ \E ok \in BOOLEAN :
       IF ok
       THEN /\ websocket' = [websocket EXCEPT ![c] = "open"]
            /\ active_connections' = Append(active_connections, c)
            /\ IF NeedsTask
               THEN /\ broadcast_task' = broadcast_task + 1
                    /\ tasks' = [tasks EXCEPT ![broadcast_task + 1] =
                                   [NoBroadcast EXCEPT !.pc = "loop"]]
               ELSE UNCHANGED <<broadcast_task, tasks>>
       ELSE /\ websocket' = [websocket EXCEPT ![c] = "closed"]
            /\ UNCHANGED <<active_connections, broadcast_task, tasks>>
  /\ UNCHANGED robotVars

\* receive_text() raises WebSocketDisconnect: manager.disconnect() removes the
\* websocket from the list
WsDisconnect(c) ==
  /\ websocket[c] = "open"
  /\ websocket' = [websocket EXCEPT ![c] = "closed"]
  /\ active_connections' = SelectSeq(active_connections, LAMBDA x : x # c)
  /\ tasks' = [t \in Clients |-> [tasks[t] EXCEPT !.kept = @ \ {c}]]
  /\ UNCHANGED <<robotVars, broadcast_task>>

\* broadcast_robot_state at `while self.active_connections:`, when created and
\* after each sleep: the task ends, or sleeps again, or with a state to send
\* starts `for connection in self.active_connections` with the first push
BroadcastLoop(t) ==
  /\ tasks[t].pc = "loop"
  /\ tasks' = [tasks EXCEPT ![t] =
       IF active_connections = <<>>
       THEN [@ EXCEPT !.pc = "done"]
       ELSE IF IsConnected /\ ReadState # {}
       THEN [pc |-> "send", i |-> 1, target |-> active_connections[1],
             kept |-> {active_connections[k] : k \in 1 .. Len(active_connections)},
             pushed |-> {active_connections[1]}]
       ELSE @]
  /\ UNCHANGED <<robotVars, active_connections, broadcast_task, websocket>>

\* `await connection.send_text(message)` returns or raises, which is ignored;
\* the list iterator gives the element after the current index, if the list
\* has one now, or the round ends in the sleep
BroadcastSent(t) ==
  /\ tasks[t].pc = "send"
  /\ tasks' = [tasks EXCEPT ![t] =
       IF @.i + 1 <= Len(active_connections)
       THEN [@ EXCEPT !.i = @ + 1, !.target = active_connections[tasks[t].i + 1],
                      !.pushed = @ \cup {active_connections[tasks[t].i + 1]}]
       ELSE [@ EXCEPT !.pc = "loop"]]
  /\ UNCHANGED <<robotVars, active_connections, broadcast_task, websocket>>

\* --------------------------------------------------------------- the clock
Tick ==
  /\ now < MaxTime
  /\ now' = now + 1
  /\ UNCHANGED <<wsVars, flagVars, sockVars, taskVars, latest_state, modeVars, progVars,
                 lockVars, opVars, direct, poller, connProcs, rtdeVars, speedVars, callVars>>

\* ------------------------------------------------------------ initial state
\* RobotTCPClient.__init__
InitClient ==
  /\ now = 1
  /\ connected = FALSE
  /\ feedback_connected = FALSE
  /\ dashboard_connected = FALSE
  /\ rtde_connected = FALSE
  /\ writer = None
  /\ feedback_writer = None
  /\ dashboard_writer = None
  /\ rtde_con = None
  /\ rtde_stop_event = FALSE
  /\ feedback_task = None
  /\ status_poller_task = None
  /\ rtde_thread = None
  /\ latest_state = <<>>
  /\ robot_mode = -1
  /\ safety_mode = -1
  /\ program_state = STOPPED
  /\ program_state_lock_until = 0
  /\ loaded_program = None
  /\ lock_holder = NoOne
  /\ lock_waiters = <<>>
  /\ op = IdleOp
  /\ op_ret = Pending
  /\ op_seen = <<>>
  /\ direct = "idle"
  /\ poller = NoTask
  /\ fb = NoListener
  /\ workers = [w \in WorkerIds |-> "none"]
  /\ ctl = IdleCtl
  /\ rtde_watch_input = <<>>
  /\ rtde_outputs = <<>>
  /\ hs = IdleHs
  /\ rtde_speed_slider = SpeedOne
  /\ latest_speed = 0
  /\ sp = IdleSp
  /\ sc = IdleCmd
  /\ wire = <<>>
  /\ active_connections = <<>>
  /\ broadcast_task = 0
  /\ tasks = [t \in Clients |-> NoBroadcast]
  /\ websocket = [c \in Clients |-> "none"]

\* A session in which the command and dashboard channels are open and the status
\* poller has been started (connect() returned True); RTDE is available or not;
\* ws gives the positions of the RTDE worker threads, watch the input recipe,
\* and listening tells whether the feedback channel is up with its listener.
InitSession(ws, watch, listening) ==
  /\ now = 1
  /\ connected = TRUE
  /\ feedback_connected = listening
  /\ dashboard_connected = TRUE
  /\ rtde_connected \in BOOLEAN
  /\ writer = "open"
  /\ feedback_writer = IF listening THEN "open" ELSE None
  /\ dashboard_writer = "open"
  /\ rtde_con = IF rtde_connected THEN "open" ELSE None
  /\ rtde_stop_event = FALSE
  /\ feedback_task = IF listening THEN "task" ELSE None
  /\ status_poller_task = "task"
  /\ rtde_thread = IF \E w \in WorkerIds : ws[w] # "none" THEN "thread" ELSE None
  /\ latest_state = <<>>
  /\ robot_mode = -1
  /\ safety_mode = -1
  /\ program_state = STOPPED
  /\ program_state_lock_until = 0
  /\ loaded_program = None
  /\ lock_holder = NoOne
  /\ lock_waiters = <<>>
  /\ op = IdleOp
  /\ op_ret = Pending
  /\ op_seen = <<>>
  /\ direct = "idle"
  /\ poller = [NoTask EXCEPT !.pc = "start"]
  /\ fb = IF listening THEN [NoListener EXCEPT !.pc = "run"] ELSE NoListener
  /\ workers = ws
  /\ ctl = IdleCtl
  /\ rtde_watch_input = watch
  /\ rtde_outputs = IF rtde_connected THEN StateNames ELSE <<>>
  /\ hs = IdleHs
  /\ rtde_speed_slider = SpeedOne
  /\ latest_speed = 0
  /\ sp = IdleSp
  /\ sc = IdleCmd
  /\ wire = <<>>
  /\ active_connections = <<>>
  /\ broadcast_task = 0
  /\ tasks = [t \in Clients |-> NoBroadcast]
  /\ websocket = [c \in Clients |-> "none"]

InitDash == InitSession([w \in WorkerIds |-> "none"], <<>>, FALSE)

\* the replies and the operations of the concurrent scenario
DashReplies ==
  {"Stopped", "PLAYING", "Starting program", "Loaded program: /programs/prog.urp"}

DashOps == {"load", "play", "stop"}

NextDash ==
  \/ Tick
  \/ \E name \in DashOps : \E arg \in ProgramNames : OpCall(name, arg)
  \/ OpAcquired
  \/ OpReply(DashReplies, FALSE)
  \/ OpResume
  \/ DirectCall
  \/ DirectAcquired
  \/ DirectReply(DashReplies)
  \/ PollerRun
  \/ PollerAcquired
  \/ PollerReply(DashReplies)

\* the dashboard channel of one open session: a program-controller caller, a
\* direct dashboard caller and the status poller
SpecDash == InitDash /\ [][NextDash]_vars

\* A session with the dashboard channel open and only the program-controller
\* caller active; the device may answer with any of the reply texts.
InitProgram ==
  /\ InitDash
  /\ ~rtde_connected

NextProgram ==
  \/ Tick
  \/ \E name \in OpNames \ {"load"} : \E arg \in ProgramNames : OpCall(name, arg)
  \/ \E arg \in ProgramNames \cup {"other.urp"} : OpCall("load", arg)
  \/ OpReply(Replies, TRUE)
  \/ OpResume

SpecProgram == InitProgram /\ [][NextProgram]_vars

\* The connection manager: the control path calls connect() and disconnect();
\* the listeners it starts run beside it.  The RTDE library is installed or not.
ConnReplies == {"PLAYING"}

ConnModes == {<<7>>}

ConnSafety == {<<1>>}

ConnRuntime == {<<1>>}

ConnSpeeds == {<<SpeedOne>>}

\* a frame of length n whose k-th double is b + k
FrameOf(n, b) == [length |-> n, doubles |-> [k \in 1 .. (n - 4) \div 8 |-> b + k]]

\* the controller supports every field of both recipes
ConnCtrls == {[out |-> AllFields(StateNames), inp |-> AllFields(SpeedNames)]}

NextConn(lib) ==
  \/ Tick
  \/ ConnectCall
  \/ ConnectCommand
  \/ ConnectFeedback
  \/ ConnectDashboard(lib)
  \/ ConnectBanner(lib)
  \/ ConnectRtde(ConnCtrls)
  \/ HandshakeVersion(FALSE)
  \/ HandshakeFull(FALSE)
  \/ HandshakeStart(FALSE)
  \/ ConnectHandshakeFailed
  \/ DisconnectCall
  \/ DisconnectAfterFeedback
  \/ DisconnectAfterPoller
  \/ DisconnectAfterRtde
  \/ FeedbackFrame({FrameOf(492, 0), FrameOf(484, 0)})
  \/ FeedbackCancelled
  \/ PollerRun
  \/ PollerAcquired
  \/ PollerReply(ConnReplies)
  \/ PollerCancelled
  \/ DirectCall
  \/ DirectAcquired
  \/ DirectReply(ConnReplies)
  \/ \E w \in WorkerIds : WorkerLoop(w)
  \/ \E w \in WorkerIds : WorkerReceive(w)
  \/ \E w \in WorkerIds : WorkerModes(w, ConnModes, ConnSafety, ConnRuntime)
  \/ \E w \in WorkerIds : WorkerSnapshot(w, ConnSpeeds, ConnSpeeds)

\* RTDE_LIB_AVAILABLE = True
SpecConn == InitClient /\ [][NextConn(TRUE)]_vars

\* Telemetry beside the program controller: a session whose RTDE worker is
\* running while play, pause and stop are called; a package may carry any
\* runtime state.
InitTelemetry ==
  /\ InitSession([w \in WorkerIds |-> IF w = 1 THEN "top" ELSE "none"], SpeedNames, FALSE)
  /\ rtde_connected

TelemReplies ==
  {"Starting program", "Pausing program", "Stopped", "Loading program: prog.urp"}

TelemRuntime == {<<0>>, <<1>>, <<2>>, <<3>>, <<4>>, <<5>>}

NextTelemetry ==
  \/ Tick
  \/ \E name \in {"play", "pause", "stop"} : \E arg \in ProgramNames : OpCall(name, arg)
  \/ OpReply(TelemReplies, FALSE)
  \/ OpResume
  \/ \E w \in WorkerIds : WorkerLoop(w)
  \/ \E w \in WorkerIds : WorkerReceive(w)
  \/ \E w \in WorkerIds : WorkerModes(w, ConnModes, ConnSafety, TelemRuntime)
  \/ \E w \in WorkerIds : WorkerSnapshot(w, ConnSpeeds, ConnSpeeds)

SpecTelemetry == InitTelemetry /\ [][NextTelemetry]_vars

\* a call into a library returns or raises
IoResults == {"ok", "error"}

\* Speed control: a session with the feedback listener and the RTDE worker
\* running, the input recipe negotiated or not, and a caller of
\* set_robot_speed with fractions inside and outside [0, 1] (in tenths).
InitSpeed ==
  /\ \E watch \in {<<>>, SpeedNames} :
       InitSession([w \in WorkerIds |-> IF w = 1 THEN "top" ELSE "none"], watch, TRUE)
  /\ rtde_connected

SpeedInputs == {-3, 0, 5, 10, 17}

SpeedValues == {<<0>>, <<5>>, <<SpeedOne>>}

NextSpeed ==
  \/ SetSpeedCall(SpeedInputs)
  \/ SetSpeedSent(IoResults)
  \/ SetSpeedDrain(IoResults)
  \/ FeedbackFrame({FrameOf(492, 0), FrameOf(484, 0)})
  \/ \E w \in WorkerIds : WorkerLoop(w)
  \/ \E w \in WorkerIds : WorkerReceive(w)
  \/ \E w \in WorkerIds : WorkerModes(w, ConnModes, ConnSafety, ConnRuntime)
  \/ \E w \in WorkerIds : WorkerSnapshot(w, SpeedValues, SpeedValues)

SpecSpeed == InitSpeed /\ [][NextSpeed]_vars

\* The command channel alone: send_command is called with every text of up to
\* MaxLen pieces, in a session that is open until a write fails.
Texts == UNION {[1 .. n -> Pieces] : n \in 0 .. MaxLen}

NextCommand ==
  \/ SendCommandCall(Texts)
  \/ SendCommandDrain(IoResults)

SpecCommand == InitDash /\ [][NextCommand]_vars

\* The handshake in detail: controllers of four firmwares, every request able
\* to raise, and a caller of set_robot_speed.
HsCtrls ==
  { [out |-> AllFields(StateNames), inp |-> AllFields(SpeedNames)],
    [out |-> AllFields(StateNames) \ {"target_speed_fraction"}, inp |-> {}],
    [out |-> {"robot_mode", "safety_mode", "output_runtime_state"},
     inp |-> {"speed_slider_fraction"}],
    [out |-> {}, inp |-> AllFields(SpeedNames)] }

HsFractions == {3}

HsSpeeds == {<<5>>}

NextHandshake ==
  \/ ConnectCall
  \/ ConnectCommand
  \/ ConnectFeedback
  \/ ConnectDashboard(TRUE)
  \/ ConnectBanner(TRUE)
  \/ ConnectRtde(HsCtrls)
  \/ HandshakeVersion(TRUE)
  \/ HandshakeFull(TRUE)
  \/ HandshakeField(TRUE)
  \/ HandshakeFinal(TRUE)
  \/ HandshakeStart(TRUE)
  \/ ConnectHandshakeFailed
  \/ \E w \in WorkerIds : WorkerLoop(w)
  \/ \E w \in WorkerIds : WorkerReceive(w)
  \/ \E w \in WorkerIds : WorkerModes(w, ConnModes, ConnSafety, ConnRuntime)
  \/ \E w \in WorkerIds : WorkerSnapshot(w, HsSpeeds, HsSpeeds)
  \/ SetSpeedCall(HsFractions)
  \/ SetSpeedSent(IoResults)
  \/ SetSpeedDrain(IoResults)

SpecHandshake == InitClient /\ [][NextHandshake]_vars

\* The command channel through a session's life: connect() without the RTDE
\* library, disconnect(), the listeners they start and stop, and a caller of
\* send_command whose writes may fail.
NextChannel ==
  \/ Tick
  \/ ConnectCall
  \/ ConnectCommand
  \/ ConnectFeedback
  \/ ConnectDashboard(FALSE)
  \/ ConnectBanner(FALSE)
  \/ DisconnectCall
  \/ DisconnectAfterFeedback
  \/ DisconnectAfterPoller
  \/ FeedbackCancelled
  \/ PollerRun
  \/ PollerReply(ConnReplies)
  \/ PollerCancelled
  \/ SendCommandCall({<<"x=1">>, <<"x=1", NL, "x=1">>})
  \/ SendCommandDrain(IoResults)

\* RTDE_LIB_AVAILABLE = False
SpecChannel == InitClient /\ [][NextChannel]_vars

\* the frames of the feedback stream: of a CB3 (492 bytes and more) and of an
\* e-Series controller (1108 bytes), frames too short for the TCP pose, and a
\* header that announces no body, each with two contents
FeedbackFrames == {FrameOf(n, b) : n \in {0, 484, 492, 500, 1108}, b \in {0, 100}}

\* An open session with every channel up: the feedback listener, the RTDE
\* worker, the status poller, a direct dashboard caller and a caller of
\* send_command; any read or write may fail.
NextSession ==
  \/ Tick
  \/ FeedbackFrame(FeedbackFrames)
  \/ \E w \in WorkerIds : WorkerLoop(w)
  \/ \E w \in WorkerIds : WorkerReceive(w)
  \/ \E w \in WorkerIds : WorkerModes(w, ConnModes, ConnSafety, ConnRuntime)
  \/ \E w \in WorkerIds : WorkerSnapshot(w, ConnSpeeds, ConnSpeeds)
  \/ PollerRun
  \/ PollerAcquired
  \/ PollerReply(ConnReplies)
  \/ DirectCall
  \/ DirectAcquired
  \/ DirectReply(ConnReplies)
  \/ SendCommandCall({<<"x=1">>})
  \/ SendCommandDrain(IoResults)

SpecSession == InitSpeed /\ [][NextSession]_vars

\* The state broadcast: websocket clients attach and detach while the
\* broadcast task runs its rounds, beside a robot client that is connected or
\* not.  The task's sleeps end and its pushes return or raise.
NextBroadcast ==
  \/ \E c \in Clients : WsConnect(c)
  \/ \E c \in Clients : WsAccepted(c)
  \/ \E c \in Clients : WsDisconnect(c)
  \/ \E t \in Clients : BroadcastLoop(t)
  \/ \E t \in Clients : BroadcastSent(t)

SpecBroadcast ==
  /\ InitDash \/ InitClient
  /\ [][NextBroadcast]_vars
  /\ WF_vars(\E t \in Clients : BroadcastLoop(t))
  /\ WF_vars(\E t \in Clients : BroadcastSent(t))

\* The program controller and unlock_protective_stop with replies that hold an
\* error marker beside a success word, the plain success replies, and the two
\* replies to an unlock.
MarkerReplies ==
  { "Error while loading program: prog.urp",
    "Error: program already playing",
    "Error: program paused",
    "Error: program stopped",
    "Failed to execute: starting program",
    "Failed to execute: pausing",
    "Starting program: remote control mode is disabled",
    "Loading program: prog.urp",
    "Starting program",
    "Pausing program",
    "Stopped",
    "Protective stop releasing",
    "Cannot unlock protective stop until 5s after occurrence. Always inspect cause of protective stop before unlocking" }

NextReplies ==
  \/ Tick
  \/ \E name \in OpNames \cup {"unlock"} : \E arg \in ProgramNames : OpCall(name, arg)
  \/ OpReply(MarkerReplies, FALSE)
  \/ OpResume

SpecReplies == InitProgram /\ [][NextReplies]_vars

\* ================================================================== claims

Loading == "Loading program: prog.urp"
Starting == "Starting program"
NoResponse == "No response from Dashboard"

\* the step in which the program-controller call reads a reply
OpReads == op.pc = "read" /\ op_seen' # op_seen

LastSeen == op_seen[Len(op_seen)]

\* the step in which the status poller reads the reply to `cmd`
PollerReads(cmd) == poller.pc = "read" /\ poller.cmd = cmd /\ poller' # poller

\* `time.time() > self.program_state_lock_until` is false
LockActive == now <= program_state_lock_until

\* C1 (as claimed): a Status Poller sample taken while the program-state lock
\* is active leaves program_state unchanged, whatever the programState reply.
C1_PollerHonoursLock ==
  [][(PollerReads("programState") /\ LockActive) => program_state' = program_state]_vars

\* C2 (as claimed): every play / pause / stop call that returns success leaves
\* program_state at PLAYING / PAUSED / STOPPED and the lock deadline at now + 1 s.
C2_SuccessSetsStateAndLock ==
  [][(op.pc = "read" /\ op'.pc = "idle" /\ op_ret'.ok /\ op.name # "load")
       => /\ program_state' = TargetState(op.name)
          /\ program_state_lock_until' = now + LockSeconds]_vars

\* C3: in a play call, a "Loading program" reply to the first attempt is
\* discarded (nothing is returned or recorded, the call goes to its retry), and
\* when the second reply is "Starting program" the call returns success with
\* that second text, recording PLAYING and the lock at that step.
C3_StaleLoadingThenStarting ==
  [][(op.name = "play" /\ OpReads)
       => /\ op_seen' = <<Loading>>
               => /\ op'.pc = "sleep"
                  /\ op_ret' = Pending
                  /\ UNCHANGED progVars
          /\ op_seen' = <<Loading, Starting>>
               => /\ op'.pc = "idle"
                  /\ op_ret' = Returned(TRUE, Starting)
                  /\ program_state' = PLAYING
                  /\ program_state_lock_until' = now + LockSeconds]_vars

C3_Witness ==
  /\ op.name = "play"
  /\ op.pc = "idle"
  /\ op_seen = <<Loading, Starting>>
  /\ op_ret = Returned(TRUE, Starting)
  /\ program_state = PLAYING

\* the words by which a reply names an action
OwnWords(name) ==
  CASE name = "load" -> {"loading", "loaded"}
    [] name = "play" -> {"starting", "playing", "started"}
    [] name = "pause" -> {"pausing", "paused"}
    [] name = "stop" -> {"stopped", "stopping"}

OtherWords(name) == UNION {OwnWords(n) : n \in OpNames \ {name}}

\* an explicit error / failure marker, as tested by the operation `name`
ErrorMarked(name, r) ==
  \/ Has(r, "remote control mode is disabled")
  \/ Has(r, "failed to execute")
  \/ Has(r, "error")
  \/ Has(r, "failed")
  \/ name = "load" /\ Has(r, "file not found")

\* a stale or ambiguous reply to `name`: a connection banner, or a state word
\* left over from another command
StaleFor(name, r) ==
  /\ ~ErrorMarked(name, r)
  /\ \/ IsBanner(r)
     \/ HasAny(r, OtherWords(name)) /\ ~HasAny(r, OwnWords(name))

AllStale == op_seen # <<>> /\ \A i \in 1 .. Len(op_seen) : StaleFor(op.name, op_seen[i])

OpReturnedAfterReply ==
  op.pc = "idle" /\ op.name # "none" /\ op_seen # <<>> /\ op_ret.msg # NoResponse

\* play_program's documented exception: a "loading" reply that comes back
\* again after the first attempt is accepted
RepeatedLoading ==
  op.name = "play" /\ \E i \in 2 .. Len(op_seen) : Has(op_seen[i], "loading")

C5_Original ==
  [][(OpReads /\ ErrorMarked(op.name, LastSeen'))
       => /\ op'.pc = "idle"
          /\ op_ret' = Returned(FALSE, LastSeen')
          /\ op'.sent = op.sent]_vars

\* "Failed to execute" for a command other than the one requested
ForeignFailure(name, r) ==
  /\ Has(r, "failed to execute")
  /\ ~Has(r, name)
  /\ ~Has(r, "remote control mode is disabled")

\* C5 (amended): as claimed, except that a "failed to execute" reply that does
\* not name the requested command is treated as stale: on the first two
\* attempts it is discarded and the request retried; on the third it is returned
\* as the failure.
C5_ErrorFailsAtOnce ==
  [][(OpReads /\ ErrorMarked(op.name, LastSeen'))
       => IF ForeignFailure(op.name, LastSeen') /\ op.attempt < MaxAttempts - 1
          THEN /\ op'.pc = "sleep"
               /\ op_ret' = Pending
               /\ UNCHANGED progVars
          ELSE /\ op'.pc = "idle"
               /\ op_ret' = Returned(FALSE, LastSeen')
               /\ op'.sent = op.sent
               /\ UNCHANGED progVars]_vars

C5_Witness ==
  /\ op.name = "stop"
  /\ op.pc = "idle"
  /\ op_seen = <<"Error while loading program: prog.urp">>
  /\ op.sent = 1
  /\ op_ret = Returned(FALSE, "Error while loading program: prog.urp")

\* where each dashboard caller is in send_dashboard_command
Callers == {"op", "direct", "poller"}

DashPc(c) ==
  CASE c = "op" -> op.pc
    [] c = "direct" -> direct
    [] c = "poller" -> poller.pc

\* the callers that have written a request and not yet read its reply
InExchange == {c \in Callers : DashPc(c) = "read"}

Range(q) == {q[i] : i \in 1 .. Len(q)}

\* C6: dashboard exchanges are mutually exclusive: at most one caller is between
\* the write of its request and the read of its reply, it is the holder of the
\* lock, and every other caller that entered is queued, once, behind it.
C6_OneExchangeInFlight ==
  /\ Cardinality(InExchange) <= 1
  /\ \A c \in InExchange : lock_holder = c
  /\ \A c \in Callers :
       DashPc(c) = "wait" <=>
         (c \in Range(lock_waiters) \/ (lock_holder = c /\ c \notin InExchange))
  /\ Cardinality(Range(lock_waiters)) = Len(lock_waiters)

C6_Witness ==
  /\ InExchange = {"poller"}
  /\ Len(lock_waiters) = 2

\* ------------------------------------------------------------------- C7
WorkerExited(w) == workers[w] \in {"none", "done"}

\* disconnect() closes the socket of the feedback task, of the Status Poller,
\* of the RTDE receive worker
ClosesFeedback == feedback_writer = "open" /\ feedback_writer' = None

ClosesDashboard == dashboard_writer = "open" /\ dashboard_writer' = None

ClosesRtde == ctl.pc = "d_rtde" /\ rtde_con = "open" /\ rtde_con' = None

\* C7: for each background listener, disconnect() closes the listener's socket
\* only when that listener has exited, and an RTDE worker that stores what it
\* received does so while the RTDE connection is open.
C7_ListenersExitBeforeClose ==
  [][/\ ClosesFeedback => ~FeedbackAlive
     /\ ClosesDashboard => ~PollerAlive
     /\ ClosesRtde => \A w \in WorkerIds : WorkerExited(w)
     /\ \A w \in WorkerIds :
          (workers[w] \in {"modes", "snap"} /\ workers'[w] # workers[w])
            => rtde_con = "open"]_vars

\* ------------------------------------------------------------------- C8
AfterDisconnect == ctl.pc = "idle" /\ ctl.last = "disconnect"

\* C8: from the return of disconnect() to the next connect(), the four channel
\* flags are false, the snapshot is cleared and read_state() returns nothing.
C8_DisconnectedStaysCleared ==
  AfterDisconnect =>
    /\ ~connected
    /\ ~feedback_connected
    /\ ~dashboard_connected
    /\ ~rtde_connected
    /\ latest_state = <<>>
    /\ ReadState = {}

\* ------------------------------------------------------------------- C9
\* what disconnect() leaves behind in the fields it assigns
Cleared ==
  /\ ~connected /\ ~feedback_connected /\ ~dashboard_connected /\ ~rtde_connected
  /\ writer = None /\ feedback_writer = None /\ dashboard_writer = None
  /\ rtde_con = None
  /\ feedback_task = None /\ status_poller_task = None /\ rtde_thread = None
  /\ latest_state = <<>>

\* the control path calls disconnect() right after a disconnect() returned, or
\* before any connect()
RepeatedDisconnect ==
  /\ ctl.pc = "idle"
  /\ ctl.last \in {"none", "disconnect"}
  /\ ctl'.op = "disconnect"
  /\ ctl'.calls = ctl.calls + 1

\* C9: a disconnect() called right after a disconnect(), or before any
\* connect(), returns at once without an error, leaves is_connected() false and
\* every field it assigns as the first call left it, and changes nothing else;
\* started from the state the first call left, it changes nothing at all.
C9_DisconnectIdempotent ==
  [][RepeatedDisconnect =>
       /\ ctl'.pc = "idle"
       /\ ctl'.last = "disconnect"
       /\ ~IsConnected'
       /\ Cleared'
       /\ UNCHANGED <<rtde_stop_event, modeVars, progVars, lockVars, opVars, direct,
                      poller, fb, workers>>
       /\ Cleared => UNCHANGED <<flagVars, sockVars, taskVars, latest_state>>]_vars

\* disconnect() has returned for the second time in a row, after a session in
\* which the RTDE worker ran
C9_Witness ==
  /\ AfterDisconnect
  /\ ctl.before = "disconnect"
  /\ robot_mode = 7
  /\ Cleared

\* ------------------------------------------------------------------ C10
\* connect() comes back from its attempt to open the command socket without it
CommandNotOpened == ctl.pc = "c_cmd" /\ ctl' # ctl /\ writer' # "open"

\* C10: when the command socket cannot be opened, connect() returns false,
\* is_connected() is false, no other channel is attempted or opened and no
\* background task is started.
C10_CommandFailureAborts ==
  [][CommandNotOpened =>
       /\ ctl'.pc = "idle"
       /\ ctl'.last = "connect_fail"
       /\ ~ctl'.result
       /\ ~IsConnected'
       /\ UNCHANGED <<feedback_connected, dashboard_connected, rtde_connected,
                      sockVars, taskVars, poller, fb, workers>>]_vars

\* connect() has returned false from the command socket
C10_Witness ==
  /\ ctl.pc = "idle"
  /\ ctl.last = "connect_fail"
  /\ ~ctl.result
  /\ ~IsConnected
  /\ feedback_writer = None /\ dashboard_writer = None /\ rtde_con = None
  /\ feedback_task = None /\ status_poller_task = None /\ rtde_thread = None

\* ------------------------------------------------------------------ C11
\* connect() returns after the command socket was opened
ConnectReturns == ctl.op = "connect" /\ ctl.pc \notin {"idle", "c_cmd"} /\ ctl'.pc = "idle"

\* the command socket has just been opened
CommandOpened == ctl.pc = "c_cmd" /\ ctl' # ctl /\ writer' = "open"

\* the positions of connect() after the command socket
ConnectPcs ==
  {"c_fb", "c_dash", "c_banner", "c_rtde", "c_hs", "c_hs_full", "c_hs_field",
   "c_hs_final", "c_hs_start", "c_hs_failed"}

\* connect() takes a step from the position pc
ConnectStepAt(pc) == ctl.op = "connect" /\ ctl.pc = pc /\ ctl' # ctl

\* C11: when the command socket opens, connect() goes on and can only return
\* true, with is_connected() true, whatever became of the feedback, dashboard
\* and RTDE connections; the feedback and dashboard stages mark their channel
\* available exactly when its socket was opened, no later step of connect()
\* changes that mark, and at the return RTDE is marked available exactly when
\* its connection is open after the handshake.
C11_DegradedConnectSucceeds ==
  [][/\ CommandOpened => (ctl'.pc # "idle" /\ IsConnected')
     /\ ConnectReturns =>
          /\ ctl'.result
          /\ ctl'.last = "connect_ok"
          /\ IsConnected'
          /\ ctl.pc # "c_dash" => (rtde_connected' <=> (rtde_con' = "open"))
     /\ ConnectStepAt("c_fb") => (feedback_connected' <=> (feedback_writer' = "open"))
     /\ ConnectStepAt("c_dash") => (dashboard_connected' <=> (dashboard_writer' = "open"))
     /\ (\E pc \in ConnectPcs \ {"c_fb"} : ConnectStepAt(pc))
          => UNCHANGED feedback_connected
     /\ (\E pc \in ConnectPcs \ {"c_dash"} : ConnectStepAt(pc))
          => UNCHANGED dashboard_connected]_vars

\* connect() has returned true with the feedback channel up, the dashboard
\* refused and the RTDE start declined
C11_Witness ==
  /\ ctl.pc = "idle" /\ ctl.last = "connect_ok" /\ ctl.result
  /\ IsConnected
  /\ feedback_connected /\ feedback_writer = "open"
  /\ ~dashboard_connected /\ dashboard_writer = None
  /\ ~rtde_connected /\ rtde_con = "closed" /\ ctl.sync = "no"

\* ------------------------------------------------------------------ C12
\* the positions of connect() inside _rtde_handshake
HandshakePcs == {"c_hs", "c_hs_full", "c_hs_field", "c_hs_final", "c_hs_start"}

\* the requests of a handshake that went through all its steps
CompleteHandshake ==
  <<"get_controller_version", "send_output_setup", "send_input_setup", "send_start">>

\* the channels other than RTDE
OtherChannels ==
  <<connected, feedback_connected, dashboard_connected, writer, feedback_writer,
    dashboard_writer>>

\* C12: rtde_connected becomes true only in the step in which send_start is
\* accepted, after the version, output and input requests, with an output
\* recipe configured.  A version request that raises and a send_start that is
\* declined or raises fail the handshake; once the handshake has failed,
\* connect() returns with RTDE marked unavailable, the RTDE connection closed,
\* no thread recorded and no worker started by this call.  No step of the
\* RTDE stage touches the command, feedback or dashboard channel.
C12_RtdeOnlyAfterHandshake ==
  [][/\ (~rtde_connected /\ rtde_connected') =>
          /\ ConnectStepAt("c_hs_start")
          /\ ctl'.sync = "ok"
          /\ ctl'.reqs = CompleteHandshake
          /\ rtde_outputs' # <<>>
     /\ ((ConnectStepAt("c_hs") /\ ctl'.raised)
           \/ (ConnectStepAt("c_hs_start") /\ ctl'.sync # "ok"))
          => (ctl'.pc = "c_hs_failed" /\ ~rtde_connected')
     /\ ConnectStepAt("c_hs_failed") =>
          /\ ConnectReturns
          /\ ~rtde_connected'
          /\ rtde_con' = "closed"
          /\ rtde_thread' = None
          /\ workers'[ctl.calls] = "none"
          /\ UNCHANGED workers
     /\ (\E pc \in HandshakePcs \cup {"c_rtde", "c_hs_failed"} : ConnectStepAt(pc))
          => UNCHANGED OtherChannels]_vars

\* connect() has returned after the final request for the reduced output
\* recipe raised, the dashboard channel being up
C12_Witness ==
  /\ ctl.pc = "idle" /\ ctl.last = "connect_ok"
  /\ ctl.reqs = <<"get_controller_version", "send_output_setup">>
  /\ ctl.raised
  /\ rtde_outputs # <<>>
  /\ ~rtde_connected /\ rtde_con = "closed" /\ rtde_thread = None
  /\ \A w \in WorkerIds : workers[w] = "none"
  /\ dashboard_connected /\ dashboard_writer = "open"

\* ------------------------------------------------------------------ C13
\* the output recipe in force was negotiated field by field and the controller
\* gave no input recipe
ReducedOutputsNoInput ==
  rtde_outputs # <<>> /\ rtde_outputs # StateNames /\ rtde_watch_input = <<>>

\* the positions of connect() inside _setup_rtde_recipe
RecipePcs == {"c_hs_full", "c_hs_field", "c_hs_final"}

\* the worker w finishes a package
WorkerStored(w) == workers[w] = "snap" /\ workers'[w] = "top"

\* C13: with outputs accepted only field by field and the input recipe
\* rejected, the input negotiation ends at send_start and never at a failure,
\* an accepted send_start makes rtde_connected true and starts the worker; a
\* set_robot_speed call then writes nothing over RTDE and sends the script
\* over the command socket; the worker still stores the modes and, when both
\* poses are in the recipe, the snapshot of every package.
C13_InputRecipeOptional ==
  [][/\ (\E pc \in RecipePcs : ConnectStepAt(pc) /\ hs.recipe = "set_speed"
                                /\ ctl'.pc \notin RecipePcs)
          => ctl'.pc = "c_hs_start"
     /\ (ConnectStepAt("c_hs_start") /\ ReducedOutputsNoInput /\ ctl'.sync = "ok")
          => (rtde_connected' /\ ConnectReturns /\ workers'[ctl.calls] = "top")
     /\ (ReducedOutputsNoInput /\ rtde_connected /\ sp.pc = "idle" /\ sp' # sp)
          => /\ sp'.pc # "sp_rtde"
             /\ CanSend =>
                  wire' = <<Sent("command", <<"set_speed_slider_fraction(v)", NL>>,
                                 <<sp'.safe_fraction>>)>>
     /\ ReducedOutputsNoInput' => \A i \in 1 .. Len(wire') : wire'[i].ch # "rtde"
     /\ \A w \in WorkerIds :
          /\ (workers[w] = "modes" /\ workers'[w] = "snap" /\ ReducedOutputsNoInput
               /\ "robot_mode" \in AllFields(rtde_outputs))
               => <<robot_mode'>> \in ConnModes
          /\ (WorkerStored(w) /\ ReducedOutputsNoInput
               /\ {"actual_q", "actual_TCP_pose"} \subseteq AllFields(rtde_outputs))
               => (latest_state' = <<Vec(1), Vec(2)>> /\ latest_speed' = rtde_speed_slider')]_vars

\* in such a session the worker has stored a package and a set_robot_speed
\* call has returned true after sending the script
C13_Witness ==
  /\ ReducedOutputsNoInput
  /\ rtde_connected /\ ctl.sync = "ok"
  /\ latest_state = <<Vec(1), Vec(2)>> /\ robot_mode = 7
  /\ sp.pc = "idle" /\ sp.ret = "true"
  /\ Len(wire) = 1 /\ wire[1].ch = "command"

\* ------------------------------------------------------------------ C14
\* the fields of the output list that are in the set S, in list order
InListOrder(S) == SelectSeq(StateNames, LAMBDA n : n \in S)

\* the output negotiation takes a step from pc
OutputStepAt(pc) == ConnectStepAt(pc) /\ hs.recipe = "state"

\* C14: when the controller does not support the whole output list, the
\* fields are requested one by one, in list order; a field the controller
\* does not support is never accepted; after the last field the reduced
\* request is made for exactly the accepted fields in list order, and the
\* handshake fails there only if no field was accepted; the reduced recipe is
\* the one configured, and the handshake fails at that request only if the
\* request itself raises.
C14_FieldByFieldOutputs ==
  [][/\ (OutputStepAt("c_hs_full") /\ ~(AllFields(StateNames) \subseteq hs.out))
          => (ctl'.pc = "c_hs_field" /\ hs'.i = 1 /\ hs'.accepted = {})
     /\ (OutputStepAt("c_hs_field") /\ hs.i < Len(StateNames))
          => /\ ctl'.pc = "c_hs_field"
             /\ hs'.i = hs.i + 1
             /\ hs'.accepted \in {hs.accepted, hs.accepted \cup {StateNames[hs.i]}}
             /\ StateNames[hs.i] \notin hs.out => hs'.accepted = hs.accepted
     /\ (OutputStepAt("c_hs_field") /\ hs.i = Len(StateNames))
          => \/ /\ ctl'.pc = "c_hs_failed"
                /\ hs.accepted = {}
                /\ StateNames[hs.i] \notin hs.out \/ ctl'.raised
             \/ /\ ctl'.pc = "c_hs_final"
                /\ hs'.accepted # {}
                /\ hs'.accepted \subseteq hs.out
                /\ hs'.supported_names = InListOrder(hs'.accepted)
     /\ OutputStepAt("c_hs_final")
          => \/ ctl'.pc = "c_hs_failed" /\ ctl'.raised
             \/ /\ ctl'.pc = "c_hs_full"
                /\ hs'.recipe = "set_speed"
                /\ rtde_outputs' = InListOrder(hs.accepted)]_vars

\* RTDE is up with the three mode fields, the only ones the controller has
C14_Witness ==
  /\ rtde_connected /\ ctl.sync = "ok"
  /\ rtde_outputs = <<"robot_mode", "safety_mode", "output_runtime_state">>
  /\ robot_mode = 7

\* ------------------------------------------------------------------ C15
\* C15: the first request of the RTDE handshake is a protocol version request
\* (version 2, then once more version 1 if that is not accepted), and RTDE is
\* marked available only with a version accepted.
C15_VersionNegotiated ==
  /\ ctl.reqs # <<>> => ctl.reqs[1] = "request_protocol_version"
  /\ (rtde_connected /\ ctl.sync = "ok")
       => \E i \in 1 .. Len(ctl.reqs) : ctl.reqs[i] = "request_protocol_version"

\* ------------------------------------------------------------------ C16
\* the worker w stores the modes of a package whose runtime state is rs
ProcessesRuntime(w, rs) ==
  /\ workers[w] = "modes"
  /\ workers'[w] = "snap"
  /\ \E rm \in ConnModes : \E sm \in ConnSafety : PackageModes(rm, sm, <<rs>>)

\* C16: a package processed while no program-state lock is active sets
\* program_state to STOPPED for runtime state 0, PLAYING for 1 and 4, PAUSED
\* for 2 and 3, and leaves it for any other value; a package processed while
\* the lock is active leaves program_state as it is.
C16_RuntimeStateUnderLock ==
  [][\A w \in WorkerIds : \A rs \in 0 .. 5 :
       ProcessesRuntime(w, rs) =>
         IF LockActive
         THEN program_state' = program_state
         ELSE /\ rs = 0 => program_state' = STOPPED
              /\ rs \in {1, 4} => program_state' = PLAYING
              /\ rs \in {2, 3} => program_state' = PAUSED
              /\ rs = 5 => program_state' = program_state]_vars

\* stop was accepted, and a package processed under its lock has left
\* program_state at STOPPED
C16_Witness ==
  /\ LockActive
  /\ program_state = STOPPED
  /\ op.name = "stop" /\ op.pc = "idle" /\ op_ret.ok
  /\ workers[1] = "snap"

\* ------------------------------------------------------------------ C17
\* min(1, max(0, f)), in tenths
InRange(f) == Smaller(SpeedOne, Larger(0, f))

\* set_robot_speed is called with the fraction f
SpeedCalledWith(f) == sp.pc = "idle" /\ SpeedBegins(f, f)

\* C17: a call set_robot_speed(f) takes the very step the call with
\* min(1, max(0, f)) takes from the same state: the same cached speed, the
\* same bytes on the same channel, the same continuation; the cached speed is
\* 0 for a negative f and 1 for f above 1; and every transmission the call
\* makes later carries that value.
C17_ClampedBeforeUse ==
  [][/\ \A f \in SpeedInputs :
          SpeedCalledWith(f) =>
            /\ SpeedBegins(InRange(f), f)
            /\ rtde_speed_slider' = InRange(f)
            /\ sp'.safe_fraction = InRange(f)
            /\ f < 0 => rtde_speed_slider' = 0
            /\ f > SpeedOne => rtde_speed_slider' = SpeedOne
     /\ (wire' # wire /\ wire' # <<>>)
          => wire'[Len(wire')].value = <<InRange(sp'.fraction)>>]_vars

\* set_robot_speed(-0.3) has returned true after writing 0 over RTDE
C17_Witness ==
  /\ sp.pc = "idle" /\ sp.fraction = -3 /\ sp.ret = "true"
  /\ rtde_speed_slider = 0
  /\ wire = <<Sent("rtde", <<>>, <<0>>)>>

\* ------------------------------------------------------------------ C18
\* set_robot_speed is called
SpeedCalled == sp.pc = "idle" /\ sp' # sp

\* C18 (as claimed): with RTDE connected and an input recipe negotiated the
\* value is written over RTDE and true is returned with nothing else sent;
\* otherwise the first thing sent is a dashboard "set speed" command, and the
\* script goes over the command socket only after that.
C18_RtdeThenDashboardThenScript ==
  [][/\ (SpeedCalled /\ RtdeWritable) => (sp'.pc = "sp_rtde" /\ wire' = <<>>)
     /\ (sp.pc = "sp_rtde" /\ sp'.ret = "true")
          => (sp'.pc = "idle" /\ wire' = <<Sent("rtde", <<>>, <<sp.safe_fraction>>)>>)
     /\ (SpeedCalled /\ ~RtdeWritable /\ dashboard_connected /\ wire' # <<>>)
          => wire'[1].ch = "dashboard"
     /\ \A i \in 1 .. Len(wire') :
          wire'[i].ch = "command" => \E j \in 1 .. i - 1 : wire'[j].ch = "dashboard"]_vars

\* ------------------------------------------------------------------ C19
\* what read_state() reports as the speed is the clamped fraction of the last
\* set_robot_speed call
ReadsSetSpeed == \A r \in ReadState : r.speed_slider = sp.safe_fraction

\* a telemetry update: the worker or the feedback listener takes a step
TelemetryStep == workers' # workers \/ fb' # fb

\* C19 (as claimed): when set_robot_speed returns true, read_state() reports
\* the clamped fraction, and goes on reporting it until the next telemetry
\* update or the next call.
C19_ReadsNeverRegress ==
  [][/\ (sp.pc # "idle" /\ sp'.pc = "idle" /\ sp'.ret = "true") => ReadsSetSpeed'
     /\ (sp.pc = "idle" /\ sp.ret = "true" /\ ReadsSetSpeed /\ sp' = sp /\ ~TelemetryStep)
          => ReadsSetSpeed']_vars

\* ------------------------------------------------------------------ C20
\* a newline with text before it and text after it
InternalNewline(t) ==
  \E i \in 1 .. Len(t) : \E j \in i + 1 .. Len(t) : \E k \in j + 1 .. Len(t) :
    ~IsSpace(t[i]) /\ t[j] = NL /\ ~IsSpace(t[k])

\* the text has a procedure header
DefinesProcedure(t) == \E i \in 1 .. Len(t) : t[i] = "def f():"

\* the bytes the claim gives for the text t
Claimed(t) ==
  LET body == IF t # <<>> /\ t[Len(t)] = NL THEN t ELSE Append(t, NL)
  IN IF InternalNewline(t) /\ ~DefinesProcedure(t)
     THEN <<"def secondary_program():", NL>> \o body \o <<"end", NL>>
     ELSE body

\* C20 (as claimed): send_command writes the text wrapped in
\* def secondary_program(): ... end exactly when it has an internal newline and
\* defines no procedure, and unwrapped otherwise, with a newline added at the
\* end of the text only when it has none.
C20_FramingByProcedure ==
  [][(sc.pc = "idle" /\ sc'.pc = "drain")
       => wire' = <<Sent("command", Claimed(sc'.urscript), <<>>)>>]_vars

\* ------------------------------------------------------------------ C21
\* disconnect() returns
DisconnectReturns == ctl'.op = "disconnect" /\ ctl' # ctl /\ ctl'.pc = "idle"

\* the write of a send_command call fails
WriteFails == sc.pc = "drain" /\ sc'.pc = "idle" /\ sc'.ret = "false"

\* send_command is called on a channel that is not connected
SendRefused == sc.pc = "idle" /\ sc' # sc /\ ~CanSend

\* C21: is_connected() is true only with the command socket open; it becomes
\* true when connect() opens the command socket and stays true to the return
\* of connect() unless a write fails meanwhile; it is false when disconnect()
\* returns; a send_command whose write fails returns false and leaves
\* is_connected() false, one whose write goes through returns true and leaves
\* it as it was; send_command on a channel that is not connected returns false
\* at once, writes nothing and changes no flag or socket; and nothing else
\* changes is_connected().
C21_IsConnectedTracksCommandChannel ==
  [][/\ IsConnected' => writer' = "open"
     /\ CommandOpened => IsConnected'
     /\ (ConnectReturns /\ IsConnected) => (IsConnected' /\ ctl'.result)
     /\ DisconnectReturns => ~IsConnected'
     /\ WriteFails => ~IsConnected'
     /\ (sc.pc = "drain" /\ sc'.pc = "idle" /\ sc'.ret = "true")
          => UNCHANGED connected
     /\ SendRefused =>
          /\ sc'.pc = "idle" /\ sc'.ret = "false"
          /\ wire' = <<>>
          /\ UNCHANGED <<flagVars, sockVars>>
     /\ (IsConnected' # IsConnected)
          => (ConnectStepAt("c_cmd") \/ DisconnectReturns \/ WriteFails)]_vars

\* in an open session a write has failed: send_command returned false and
\* is_connected() is false although connect() returned true and the socket
\* object is still held
C21_Witness ==
  /\ ctl.pc = "idle" /\ ctl.last = "connect_ok"
  /\ sc.pc = "idle" /\ sc.ret = "false" /\ wire # <<>>
  /\ ~IsConnected
  /\ writer = "open"

\* ------------------------------------------------------------------ C22
\* the listener receives the whole frame f
Receives(f) ==
  /\ fb.pc = "run" /\ fb' # fb
  /\ feedback_connected /\ feedback_writer # None
  /\ f.length >= 4
  /\ FeedbackHandles(f, TRUE)

\* the frame received now is the 5th, 10th, ... since the listener started
FifthFrame == (fb.count + 1) % 5 = 0

\* C22: a received frame that is a 5th frame and at least 492 bytes long
\* replaces the snapshot: read_state() then returns the six doubles that
\* start at byte 252 of the frame (the 32nd to the 37th after the header) as
\* joints and the six that start at byte 444 (the 56th to the 61st) as TCP
\* pose; every other received frame is consumed, the listener going on, and
\* leaves the snapshot as it was.
C22_EveryFifthFrameDecoded ==
  [][\A f \in FeedbackFrames :
       Receives(f) =>
         IF FifthFrame /\ f.length >= 492
         THEN /\ ReadState' # {}
              /\ \A r \in ReadState' :
                   /\ r.joints = SubSeq(f.doubles, 32, 37)
                   /\ r.tcp_pose = SubSeq(f.doubles, 56, 61)
         ELSE /\ UNCHANGED <<latest_state, latest_speed>>
              /\ fb'.pc = "run"]_vars

\* the fifth frame, of 492 bytes with the content 100, has just been decoded
\* over a snapshot the RTDE worker had written
C22_Witness ==
  /\ fb.pc = "run" /\ fb.count = 0
  /\ robot_mode = 7
  /\ \A r \in ReadState :
       /\ r.joints = <<132, 133, 134, 135, 136, 137>>
       /\ r.tcp_pose = <<156, 157, 158, 159, 160, 161>>
  /\ ReadState # {}

\* ------------------------------------------------------------------ C23
\* the worker w applies the modes of a package that also carries both poses
AppliesModes(w) ==
  /\ workers[w] = "modes"
  /\ workers'[w] = "snap"
  /\ {"actual_q", "actual_TCP_pose"} \subseteq AllFields(rtde_outputs)

\* C23 (as claimed): read_state() never returns part of an update: a step of
\* the RTDE worker that has applied the modes of a package and not yet its
\* joints and TCP pose changes nothing of what read_state() returns.
C23_NoPartialUpdateVisible ==
  [][\A w \in WorkerIds : AppliesModes(w) => ReadState' = ReadState]_vars

\* ------------------------------------------------------------------ C24
\* the flag of a channel goes from true to false
CommandDrops == connected /\ ~connected'

FeedbackDrops == feedback_connected /\ ~feedback_connected'

DashboardDrops == dashboard_connected /\ ~dashboard_connected'

RtdeDrops == rtde_connected /\ ~rtde_connected'

\* the feedback listener leaves its loop
ListenerEnds == fb.pc = "run" /\ fb'.pc = "done"

\* the RTDE worker w leaves its loop
WorkerEnds(w) == workers[w] \notin {"none", "done"} /\ workers'[w] = "done"

\* a dashboard caller comes out of its exchange
ExchangeEnds ==
  \/ direct = "read" /\ direct' = "idle"
  \/ poller.pc = "read" /\ poller'.pc \in {"read", "wait", "sleep"} /\ poller' # poller

\* C24: in an open session a failed write of send_command makes the call
\* return false and clears the command flag; the feedback listener leaves its
\* loop exactly with its flag cleared, and an RTDE worker that leaves its loop
\* leaves the RTDE flag cleared; the dashboard flag is cleared only by a caller
\* coming out of its exchange, which releases the lock and lets the poller go
\* on; and a step that clears the flag of one channel leaves the flags of the
\* other three, and every socket, as they were.
C24_ChannelsFailAlone ==
  [][/\ WriteFails => (CommandDrops /\ sc'.pc = "idle")
     /\ CommandDrops => WriteFails
     /\ ListenerEnds => ~feedback_connected'
     /\ FeedbackDrops => ListenerEnds
     /\ \A w \in WorkerIds : WorkerEnds(w) => ~rtde_connected'
     /\ RtdeDrops => \E w \in WorkerIds : WorkerEnds(w)
     /\ DashboardDrops => (ExchangeEnds /\ lock_holder' # lock_holder)
     /\ CommandDrops
          => UNCHANGED <<feedback_connected, dashboard_connected, rtde_connected, sockVars>>
     /\ FeedbackDrops
          => UNCHANGED <<connected, dashboard_connected, rtde_connected, sockVars>>
     /\ DashboardDrops
          => UNCHANGED <<connected, feedback_connected, rtde_connected, sockVars>>
     /\ RtdeDrops
          => UNCHANGED <<connected, feedback_connected, dashboard_connected, sockVars>>]_vars

\* the feedback read and the RTDE receive have failed; the command and
\* dashboard channels are up, a command has gone out and the poller goes on
C24_Witness ==
  /\ ~feedback_connected /\ fb.pc = "done"
  /\ ~rtde_connected /\ workers[1] = "done"
  /\ connected /\ sc.pc = "idle" /\ sc.ret = "true"
  /\ dashboard_connected /\ poller.pc = "read" /\ poller.cmd = "programState"

\* ------------------------------------------------------------------ C25
\* a step of connect()
ConnectStep == ctl.op = "connect" /\ ctl.pc # "idle" /\ ctl' # ctl

\* C25: a channel flag goes from false to true, and a socket becomes open,
\* only in a step of an explicit connect(): for the command, feedback and
\* dashboard channels in the stage that opens the socket, for RTDE in the
\* stage that connects and in the one that ends the handshake.
C25_NoAutomaticReconnection ==
  [][/\ ((~connected /\ connected') \/ (writer # "open" /\ writer' = "open"))
          => (ConnectStep /\ ctl.pc = "c_cmd")
     /\ ((~feedback_connected /\ feedback_connected')
           \/ (feedback_writer # "open" /\ feedback_writer' = "open"))
          => (ConnectStep /\ ctl.pc = "c_fb")
     /\ ((~dashboard_connected /\ dashboard_connected')
           \/ (dashboard_writer # "open" /\ dashboard_writer' = "open"))
          => (ConnectStep /\ ctl.pc = "c_dash")
     /\ (rtde_con # "open" /\ rtde_con' = "open") => (ConnectStep /\ ctl.pc = "c_rtde")
     /\ (~rtde_connected /\ rtde_connected') => (ConnectStep /\ ctl.pc = "c_hs_start")]_vars

\* every channel of a session has dropped, the listeners have ended, and
\* everything is still down with the session not torn down
C25_Witness ==
  /\ ctl.pc = "idle" /\ ctl.last = "connect_ok"
  /\ writer = "open" /\ feedback_writer = "open" /\ dashboard_writer = "open"
  /\ ~feedback_connected /\ fb.pc = "done"
  /\ ~dashboard_connected
  /\ ~rtde_connected /\ rtde_con = "open" /\ workers[1] = "done"
  /\ poller.pc = "sleep"

\* ------------------------------------------------------------------ C26
\* what read_state() reports in a session in which nothing has been received,
\* polled or commanded
InitialReading ==
  [joints |-> Vec(0), tcp_pose |-> Vec(0), speed_slider |-> SpeedOne,
   robot_mode |-> -1, safety_mode |-> -1, program_state |-> STOPPED,
   loaded_program |-> None]

\* C26 (as claimed): when a connect() that follows a disconnect() returns
\* true, read_state() reports the initial values and the program-state lock
\* of the session before is gone.
C26_NothingOutlivesSession ==
  [][(ConnectReturns /\ ctl.before = "disconnect")
       => (ReadState' = {InitialReading} /\ program_state_lock_until' = 0)]_vars


\* --------------------------------------------------------------------- C27
\* a broadcast task that has been created and has not returned
Running(t) == tasks[t].pc \in {"loop", "send"}

RunningTasks == {t \in Clients : Running(t)}

\* an accept() returns and the websocket joins the list
Attaches == Len(active_connections') > Len(active_connections)

\* C27: broadcaster lifecycle.  There are never two broadcast tasks running,
\* and while a websocket is attached the task the manager holds is running; a
\* task returns only on finding the list empty, and once the list is empty
\* the running task returns unless a websocket attaches first; an attach that
\* finds no task running creates one.
C27_BroadcasterLifecycle ==
  /\ [](/\ Cardinality(RunningTasks) <= 1
        /\ active_connections # <<>> =>
             broadcast_task # 0 /\ RunningTasks = {broadcast_task})
  /\ [][\A t \in Clients :
          Running(t) /\ tasks'[t].pc = "done" => active_connections = <<>>]_vars
  /\ (active_connections = <<>>) ~> (active_connections # <<>> \/ RunningTasks = {})
  /\ [][Attaches /\ RunningTasks = {} =>
          /\ broadcast_task' = broadcast_task + 1
          /\ tasks'[broadcast_task'].pc = "loop"]_vars

\* the first task has returned, and a second, created by a later attach, is in
\* a round over two websockets
C27_Witness ==
  /\ broadcast_task = 2
  /\ tasks[1].pc = "done"
  /\ tasks[2].pc = "send"
  /\ Len(active_connections) = 2

\* --------------------------------------------------------------------- C28
\* a round of broadcast() ends: the iterator is exhausted
RoundEnds(t) == tasks[t].pc = "send" /\ tasks'[t].pc = "loop"

\* C28: broadcast isolation.  When a round ends, a push has been made to every
\* websocket that was attached from the beginning of the round to its end.
C28_EveryAttachedClientPushed ==
  [][\A t \in Clients : RoundEnds(t) => tasks'[t].kept \subseteq tasks'[t].pushed]_vars


\* --------------------------------------------------------------------- C29
\* the status poller task returns or is cancelled
PollerEnds == poller.pc \in {"start", "sleep", "wait", "read"} /\ poller'.pc = "done"

\* C29: the status poller ends only through disconnect(): when it ends, a
\* disconnect() call has cancelled it.
C29_PollerEndsOnlyByDisconnect ==
  [][PollerEnds => poller.cancel /\ ctl.op = "disconnect"]_vars


\* --------------------------------------------------------------------- C30
\* a step of a load_program call: the call is made, gets the lock, reads a
\* reply or resumes after its sleep
LoadSteps == op'.name = "load" /\ op' # op

\* load_program returns (True, result)
LoadSucceeds == op.name = "load" /\ op.pc = "read" /\ op'.pc = "idle" /\ op_ret'.ok

\* C30: no step of a load_program(name) call changes program_state or its
\* lock; a call that returns success has recorded loaded_program = name, and
\* the reply it returns names loading or loaded.
C30_LoadRecordsProgramOnly ==
  [][/\ LoadSteps => UNCHANGED <<program_state, program_state_lock_until>>
     /\ LoadSucceeds =>
          /\ loaded_program' = op.arg
          /\ Has(op_ret'.msg, "loading") \/ Has(op_ret'.msg, "loaded")]_vars

\* with program_state PLAYING, a load of other.urp has returned success
C30_Witness ==
  /\ op.name = "load" /\ op.pc = "idle" /\ op_ret.ok
  /\ op.arg = "other.urp"
  /\ loaded_program = "other.urp"
  /\ program_state = PLAYING


\* --------------------------------------------------------------------- C31
\* a step of an unlock_protective_stop call
UnlockSteps == op'.name = "unlock" /\ op' # op

\* the call reads its reply, or finds none, and returns
UnlockReturns == op.name = "unlock" /\ op.pc = "read" /\ op' # op

CachedModes ==
  [robot_mode |-> robot_mode, safety_mode |-> safety_mode,
   program_state |-> program_state, loaded_program |-> loaded_program]

\* the dict read_state() returns, less the four fields above
ReadStateCore ==
  {[joints |-> s.joints, tcp_pose |-> s.tcp_pose, speed_slider |-> s.speed_slider] :
     s \in ReadState}

\* C32 (as claimed): read_state() returns nothing when the client is not
\* connected; when it is connected it returns the latest snapshot if telemetry
\* has arrived and otherwise zero joints and pose with the cached speed; either
\* carries the cached modes, program state and loaded program.
C32_ReadStateByConnection ==
  /\ ~connected => ReadState = {}
  /\ connected /\ latest_state = <<>> =>
       ReadStateCore = {[joints |-> Vec(0), tcp_pose |-> Vec(0),
                         speed_slider |-> rtde_speed_slider]}
  /\ connected /\ latest_state # <<>> =>
       ReadStateCore = {[joints |-> latest_state[1], tcp_pose |-> latest_state[2],
                         speed_slider |-> latest_speed]}
  /\ \A s \in ReadState :
       [f \in DOMAIN CachedModes |-> s[f]] = CachedModes

\* C32 (amended): read_state() returns the latest snapshot whenever one is
\* held, connected or not; with none held it returns zero joints and pose with
\* the cached speed if the client is connected and nothing if it is not;
\* whatever it returns carries the cached modes, program state and loaded
\* program.
C32_ReadStateBySnapshot ==
  /\ latest_state # <<>> =>
       ReadStateCore = {[joints |-> latest_state[1], tcp_pose |-> latest_state[2],
                         speed_slider |-> latest_speed]}
  /\ latest_state = <<>> /\ connected =>
       ReadStateCore = {[joints |-> Vec(0), tcp_pose |-> Vec(0),
                         speed_slider |-> rtde_speed_slider]}
  /\ latest_state = <<>> /\ ~connected => ReadState = {}
  /\ \A s \in ReadState :
       [f \in DOMAIN CachedModes |-> s[f]] = CachedModes

\* a write on the command channel has failed after telemetry arrived: the
\* client is not connected, and read_state() returns the snapshot it holds
C32_Witness ==
  /\ ~connected
  /\ sc.ret = "false"
  /\ latest_state = <<Vec(1), Vec(2)>>
  /\ ReadState # {}


\* --------------------------------------------------------------------- C35
\* the RTDE worker threads that have been started and have not ended
LiveWorkers == {w \in WorkerIds : ~WorkerExited(w)}

\* C35: across connect() and disconnect() calls at most one RTDE receive
\* worker is alive at any time.
C35_OneWorkerPerSession == Cardinality(LiveWorkers) <= 1


\* --------------------------------------------------------------------- C33
StatusCmds == {"robotmode", "programState", "safetystatus"}

\* an iteration of the status poller begins with the dashboard available: its
\* first request is made
IterationBegins ==
  poller.pc \in {"start", "sleep"} /\ poller'.pc \in {"wait", "read"}

\* a step of the status poller assigns robot_mode, safety_mode or program_state
PollerWritesStatus ==
  /\ poller' # poller
  /\ <<robot_mode, safety_mode, program_state>>' # <<robot_mode, safety_mode, program_state>>

\* an iteration ends in the 2 s sleep with the dashboard still available
IterationEnds == poller.pc = "read" /\ poller'.pc = "sleep" /\ dashboard_connected'

\* C33: an iteration of the status poller begins with the robot-mode query if
\* RTDE is unavailable and with the loaded-program query if it is available;
\* the poller assigns robot_mode, safety_mode or program_state only on the
\* replies to its three status queries and only while RTDE is unavailable; an
\* iteration that ends with the dashboard available ends on the reply to the
\* loaded-program query.
C33_PollerDefersToRtde ==
  /\ [][IterationBegins =>
          poller'.cmd = (IF rtde_connected THEN "get loaded program" ELSE "robotmode")]_vars
  /\ [][PollerWritesStatus =>
          ~rtde_connected /\ poller.pc = "read" /\ poller.cmd \in StatusCmds]_vars
  /\ [][IterationEnds => poller.cmd = "get loaded program"]_vars
  /\ [](poller.cmd \in StatusCmds /\ poller.pc \in {"wait", "read"} => ~rtde_connected)

\* RTDE was available and has dropped; the poller has since stored PLAYING from
\* the reply to programState and is reading the reply to safetystatus
C33_Witness ==
  /\ ~rtde_connected
  /\ \A w \in WorkerIds : WorkerExited(w)
  /\ poller.pc = "read" /\ poller.cmd = "safetystatus"
  /\ program_state = PLAYING


\* --------------------------------------------------------------------- C34
\* a speed pinned at an extreme, and one strictly inside (0, 1), in tenths
Pinned(v) == v = 0 \/ v = SpeedOne

Inside(v) == 0 < v /\ v < SpeedOne

\* the speed_scaling and target_speed_fraction values a package may carry
PackageSpeeds == {v[1] : v \in SpeedValues}

\* the worker has handled the speed and the snapshot of a package
SnapshotTaken(w) == workers[w] = "snap" /\ workers'[w] = "top"

\* C34: of speed_scaling ss and target_speed_fraction tsf the speed taken is
\* the one strictly inside (0, 1) when the other is pinned at 0 or 1, and the
\* larger when both are pinned; the RTDE worker caches the speed so taken from
\* the pair its package carries.
C34_SpeedTieBreak ==
  /\ [](\A ss \in PackageSpeeds : \A tsf \in PackageSpeeds :
          /\ Inside(ss) /\ Pinned(tsf) => SpeedOf(<<ss>>, <<tsf>>) = ss
          /\ Pinned(ss) /\ Inside(tsf) => SpeedOf(<<ss>>, <<tsf>>) = tsf
          /\ Pinned(ss) /\ Pinned(tsf) =>
               SpeedOf(<<ss>>, <<tsf>>) = (IF ss >= tsf THEN ss ELSE tsf))
  /\ [][\A w \in WorkerIds :
          SnapshotTaken(w) =>
            rtde_speed_slider' \in
              {SpeedOf(ss, tsf) : ss \in Field("speed_scaling", SpeedValues),
                                  tsf \in Field("target_speed_fraction", SpeedValues)}]_vars

\* a package carrying an inside value has been handled: the inside value
\* is cached and carried by the snapshot
C34_Witness ==
  /\ \E w \in WorkerIds : workers[w] = "top"
  /\ rtde_speed_slider = 5
  /\ latest_state = <<Vec(1), Vec(2)>>
  /\ latest_speed = 5


\* --------------------------------------------------------------------- C36
\* the caller c writes its request to the dashboard socket
WritesRequest(c) == DashPc(c) # "read" /\ DashPc(c)' = "read"

\* C36: no request is written to the dashboard socket while the dashboard
\* channel is marked disconnected.
C36_NoWriteAfterDrop ==
  [][\A c \in Callers : WritesRequest(c) => dashboard_connected]_vars


\* --------------------------------------------------------------------- C37
\* a load / play / pause / stop call returns failure: at once for a channel
\* that is down, or on a missing reply, an error reply or the last attempt
OpFails ==
  /\ op'.name \in OpNames
  /\ op' # op
  /\ op'.pc = "idle"
  /\ ~op_ret'.ok

\* a step of a call that does not make it return success
OpGoesOn ==
  /\ op'.name \in OpNames
  /\ op' # op
  /\ ~(op'.pc = "idle" /\ op_ret'.ok)

\* C37: the step in which a load, play, pause or stop call returns failure,
\* and every step of a call before its return, leaves program_state, the lock
\* deadline and loaded_program unchanged; the lock deadline changes only in
\* the step in which a play, pause or stop call returns success.
C37_FailureChangesNothing ==
  /\ [][OpFails \/ OpGoesOn => UNCHANGED progVars]_vars
  /\ [][program_state_lock_until' # program_state_lock_until =>
          /\ op.name \in {"play", "pause", "stop"}
          /\ op.pc = "read" /\ op'.pc = "idle" /\ op_ret'.ok
          /\ program_state_lock_until' = now + LockSeconds]_vars

\* a stop call has failed on its third stale reply while the program is
\* recorded as playing, loaded and locked by the play before it
C37_Witness ==
  /\ op.name = "stop" /\ op.pc = "idle" /\ ~op_ret.ok
  /\ op.sent = MaxAttempts
  /\ program_state = PLAYING
  /\ loaded_program = "prog.urp"
  /\ program_state_lock_until >= now


\* --------------------------------------------------------------------- C38
\* set_robot_speed is called with no channel to send on, and returns false
SpeedRefused == sp.pc = "idle" /\ sp'.pc = "idle" /\ sp' # sp /\ sp'.ret = "false"

\* C38: a set_robot_speed call that returns false because no channel takes
\* the value leaves the cached speed as it was.
C38_RefusedSpeedNotCached ==
  [][SpeedRefused => rtde_speed_slider' = rtde_speed_slider]_vars


\* --------------------------------------------------------------------- C39
\* load_program(name) returns success
LoadRecords ==
  /\ op.name = "load" /\ op.pc = "read" /\ op'.pc = "idle" /\ op_ret'.ok
  /\ loaded_program' = op.arg

\* the program named in a "Loaded program:" reply
NamedInReply == {StripLoaded(r) : r \in {x \in Replies : Has(x, "cs:Loaded program:")}}

\* C39: loaded_program changes only to the name passed to a load_program that
\* returns success, or to the program named in a "Loaded program:" reply.
C39_LoadedProgramSources ==
  [][loaded_program' # loaded_program =>
       LoadRecords \/ loaded_program' \in NamedInReply]_vars


\* --------------------------------------------------------------------- C40
\* the reply holds one of the error markers
HoldsErrorMarker(r) ==
  Has(r, "error") \/ Has(r, "failed") \/ Has(r, "remote control mode is disabled")

\* the words each method accepts as its success
SuccessWords(name) ==
  CASE name = "load" -> {"loading", "loaded"}
    [] name = "play" -> {"starting", "playing", "started"}
    [] name = "pause" -> {"pausing", "paused"}
    [] name = "stop" -> {"stopped", "stopping"}

\* a call reads a reply that holds an error marker and a success word of the
\* method called; the reply is op'.last_result
ReadsMixedReply ==
  /\ op.name \in OpNames
  /\ op.pc = "read" /\ op' # op
  /\ ~(op'.pc = "idle" /\ op_ret'.msg = NoResponse)
  /\ HoldsErrorMarker(op'.last_result)
  /\ HasAny(op'.last_result, SuccessWords(op.name))

\* the reply is a "Failed to execute" that does not name the command sent
OtherCommandFailed(name, r) ==
  /\ Has(r, "failed to execute")
  /\ ~Has(r, "remote control mode is disabled")
  /\ ~Has(r, name)

\* C40 (as claimed): a reply with an error marker and the success word of the
\* requested action makes the call return failure, and changes no program
\* state.
C40_Original ==
  [][ReadsMixedReply =>
       /\ op'.pc = "idle" /\ op_ret' = Returned(FALSE, op'.last_result)
       /\ UNCHANGED progVars]_vars

\* C40 (amended): such a reply never makes the call return success and changes
\* no program state; it makes the call return failure with that reply, except
\* a "Failed to execute" reply that does not name the command sent, which is
\* retried while attempts remain.
C40_ErrorBeforeSuccess ==
  [][ReadsMixedReply =>
       /\ ~(op'.pc = "idle" /\ op_ret'.ok)
       /\ UNCHANGED progVars
       /\ IF OtherCommandFailed(op.name, op'.last_result) /\ op.attempt < MaxAttempts - 1
          THEN op'.pc = "sleep"
          ELSE op'.pc = "idle" /\ op_ret' = Returned(FALSE, op'.last_result)]_vars

\* a pause call has failed on "Error: program paused" and the program is still
\* recorded as playing
C40_Witness ==
  /\ op.name = "pause" /\ op.pc = "idle"
  /\ op_ret = Returned(FALSE, "Error: program paused")
  /\ program_state = PLAYING

====
